---------------------------- MODULE Spec2Model ----------------------------
(***************************************************************************)
(* Record Reconciliation Engine of va-campaign-finance: the filing         *)
(* calendar and on-time determination, the row mappers, the amendment      *)
(* consolidator, the near-duplicate suppressor, the name normalizer and    *)
(* the entity/committee resolver with its cross-schedule matcher.          *)
(*                                                                         *)
(* Each component is a pure function or a batch loop over an in-memory     *)
(* table.  Every component has its own specification (SpecOnTime,          *)
(* SpecMap, SpecAmend, SpecDedup, SpecName, SpecResolve) whose Init draws  *)
(* the inputs from bounded sets and whose actions apply the code.          *)
(***************************************************************************)
EXTENDS Integers, Sequences, FiniteSets, TLC

VARIABLES
    \* _determine_on_time_status and the onTime column conversion
    ot_tx, ot_rep, ot_cycle, ot_year, ot_status, ot_column,
    \* _map_new_row_to_transaction / _map_old_row_to_transaction over a file
    \* (mp_file is the schedule file being read: its format, folder and schedule)
    mp_file, mp_rows, mp_reports, mp_pos, mp_transactions, logged_missing_reports,
    mp_warnings,
    \* process_data over the source files of a run (test or production mode)
    fl_config, fl_files, fl_pos, fl_all_data, fl_skipped, fl_status,
    \* normalize_office_sought, determine_government_level, normalize_district
    of_office_sought, of_district, of_candidate_city, of_office_normal, of_level,
    of_district_normal, of_pc,
    \* get_latest_amendments
    am_df, am_threshold, am_latest, am_out, am_pc,
    \* deduplicate_records
    dd_records, final_records, exact_duplicates_found, near_duplicates_found, dd_pc,
    \* normalize_name
    nm_name, nm_mode, nm_once, nm_twice, nm_pc,
    \* OptimizedContributionMatcher and get_unmatched_contributions_optimized
    \* (rs_cm_table and rs_nv_table are the two lookup tables in the warehouse,
    \* rs_trace the per-disbursement outcome of the batch loop)
    rs_cm_table, rs_nv_table, name_variations, committee_mappings,
    normalized_to_committee, schedule_a_df, schedule_d_df, batch_size, batch_idx,
    unmatched_contributions, rs_trace, rs_pc

otVars == <<ot_tx, ot_rep, ot_cycle, ot_year, ot_status, ot_column>>
mpVars == <<mp_file, mp_rows, mp_reports, mp_pos, mp_transactions,
           logged_missing_reports, mp_warnings>>
amVars == <<am_df, am_threshold, am_latest, am_out, am_pc>>
ddVars == <<dd_records, final_records, exact_duplicates_found, near_duplicates_found, dd_pc>>
nmVars == <<nm_name, nm_mode, nm_once, nm_twice, nm_pc>>
rsVars == <<rs_cm_table, rs_nv_table, name_variations, committee_mappings,
            normalized_to_committee, schedule_a_df, schedule_d_df, batch_size, batch_idx,
            unmatched_contributions, rs_trace, rs_pc>>
flVars == <<fl_config, fl_files, fl_pos, fl_all_data, fl_skipped, fl_status>>
ofVars == <<of_office_sought, of_district, of_candidate_city, of_office_normal, of_level,
           of_district_normal, of_pc>>
vars == <<otVars, mpVars, amVars, ddVars, nmVars, rsVars, flVars, ofVars>>

-----------------------------------------------------------------------------
(* Generic helpers                                                          *)

Range(s) == {s[i] : i \in DOMAIN s}

Abs(x) == IF x < 0 THEN -x ELSE x

-----------------------------------------------------------------------------
(* Calendar dates (datetime.date)                                           *)

Date(y, m, d) == [y |-> y, m |-> m, d |-> d]
\* the value None where a date is expected
NoDate == Date(0, 0, 0)

IsLeap(y) == (y % 4 = 0 /\ y % 100 # 0) \/ y % 400 = 0

DaysInMonth(y, m) ==
    IF m = 2 THEN (IF IsLeap(y) THEN 29 ELSE 28)
    ELSE IF m \in {4, 6, 9, 11} THEN 30 ELSE 31

ValidDate(y, m, d) == y >= 1 /\ m \in 1..12 /\ d >= 1 /\ d <= DaysInMonth(y, m)

RECURSIVE DaysBeforeMonth(_, _)
DaysBeforeMonth(y, m) == IF m <= 1 THEN 0 ELSE DaysBeforeMonth(y, m - 1) + DaysInMonth(y, m - 1)

\* date.toordinal(): the proleptic Gregorian day number
Ordinal(dt) ==
    LET y1 == dt.y - 1
    IN  365 * y1 + (y1 \div 4) - (y1 \div 100) + (y1 \div 400)
        + DaysBeforeMonth(dt.y, dt.m) + dt.d

\* date <= date
DateLE(a, b) == Ordinal(a) <= Ordinal(b)

-----------------------------------------------------------------------------
(* Raw date values as the pipeline receives them.  A value is None, the    *)
(* empty string, a datetime object, a string written in one textual        *)
(* layout, or some other object (a float NaN).  For a string, y/m/d are    *)
(* the numbers written in the text (a two-digit year for %y).              *)

RawNone  == [kind |-> "none",  fmt |-> "", y |-> 0, m |-> 0, d |-> 0]
RawEmpty == [kind |-> "empty", fmt |-> "", y |-> 0, m |-> 0, d |-> 0]
RawOther == [kind |-> "other", fmt |-> "", y |-> 0, m |-> 0, d |-> 0]
RawGarbage == [kind |-> "str", fmt |-> "garbage", y |-> 0, m |-> 0, d |-> 0]
RawStr(f, y, m, d) == [kind |-> "str", fmt |-> f, y |-> y, m |-> m, d |-> d]
RawDatetime(y, m, d) == [kind |-> "datetime", fmt |-> "", y |-> y, m |-> m, d |-> d]
Iso(y, m, d) == RawStr("%Y-%m-%d", y, m, d)

\* Python truthiness of a raw value: None and '' are falsy
Truthy(val) == val.kind \notin {"none", "empty"}

\* datetime.strptime(text, fmt).date(): the text parses only under the layout
\* it is written in, and only when it names a real calendar day; %y expands a
\* two-digit year (00-68 => 20YY, 69-99 => 19YY)
Strptime(val, fmt) ==
    IF val.fmt # fmt THEN NoDate
    ELSE LET yy == IF fmt = "%m/%d/%y"
                   THEN (IF val.y < 69 THEN 2000 + val.y ELSE 1900 + val.y)
                   ELSE val.y
         IN IF ValidDate(yy, val.m, val.d) THEN Date(yy, val.m, val.d) ELSE NoDate

RECURSIVE TryFormats(_, _, _)
\* for fmt in formats: try strptime, first success wins, else None
TryFormats(val, formats, i) ==
    IF i > Len(formats) THEN NoDate
    ELSE LET parsed == Strptime(val, formats[i])
         IN IF parsed # NoDate THEN parsed ELSE TryFormats(val, formats, i + 1)

ToDateFormats ==
    <<"%Y-%m-%d", "%m/%d/%Y", "%Y-%m-%d %H:%M:%S", "%Y-%m-%d %H:%M:%S.%f", "%m/%d/%y">>

\* to_date, the helper nested in _determine_on_time_status
ToDate(val) ==
    IF val.kind \in {"none", "empty"} THEN NoDate
    ELSE IF val.kind = "datetime" THEN Date(val.y, val.m, val.d)
    ELSE IF val.kind = "str" THEN TryFormats(val, ToDateFormats, 1)
    ELSE NoDate

-----------------------------------------------------------------------------
(* Filing calendar (filing_deadlines.py)                                    *)

Period(s, e, dl, oc) ==
    [filingPeriodStart |-> s, filingPeriodEnd |-> e, filingPeriodDeadline |-> dl, onCycle |-> oc]

FILING_PERIODS_2024 == <<
    Period(Iso(2024, 1, 1),   Iso(2024, 6, 30),  Iso(2024, 7, 15),  FALSE),
    Period(Iso(2024, 7, 1),   Iso(2024, 12, 31), Iso(2025, 1, 15),  FALSE),
    Period(Iso(2024, 1, 1),   Iso(2024, 3, 31),  Iso(2024, 4, 15),  TRUE),
    Period(Iso(2024, 4, 1),   Iso(2024, 6, 6),   Iso(2024, 6, 10),  TRUE),
    Period(Iso(2024, 6, 7),   Iso(2024, 6, 30),  Iso(2024, 7, 15),  TRUE),
    Period(Iso(2024, 7, 1),   Iso(2024, 8, 31),  Iso(2024, 9, 16),  TRUE),
    Period(Iso(2024, 9, 1),   Iso(2024, 9, 30),  Iso(2024, 10, 15), TRUE),
    Period(Iso(2024, 10, 1),  Iso(2024, 10, 24), Iso(2024, 10, 28), TRUE),
    Period(Iso(2024, 10, 25), Iso(2024, 11, 28), Iso(2024, 12, 5),  TRUE),
    Period(Iso(2024, 11, 29), Iso(2024, 12, 31), Iso(2025, 1, 15),  TRUE),
    Period(Iso(2024, 6, 7),   Iso(2024, 6, 17),  Iso(2024, 6, 17),  TRUE),
    Period(Iso(2024, 10, 25), Iso(2024, 11, 4),  Iso(2024, 11, 4),  TRUE) >>

GenerateGenericFilingPeriods(year) == <<
    Period(Iso(year, 1, 1), Iso(year, 6, 30),  Iso(year, 7, 15),     FALSE),
    Period(Iso(year, 7, 1), Iso(year, 12, 31), Iso(year + 1, 1, 15), FALSE) >>

\* FILING_PERIODS_BY_YEAR.get(year, generic): 2024 is the only curated year
GetFilingPeriodsForYear(year) ==
    IF year = 2024 THEN FILING_PERIODS_2024 ELSE GenerateGenericFilingPeriods(year)

-----------------------------------------------------------------------------
(* _determine_on_time_status                                                *)

\* report_year as received: None, '', NaN, a non-numeric string, an integer
\* or a string of digits
YearNone == [kind |-> "none", val |-> 0]
YearEmpty == [kind |-> "empty", val |-> 0]
YearNaN == [kind |-> "nan", val |-> 0]
YearBad == [kind |-> "badstr", val |-> 0]
YearInt(v) == [kind |-> "int", val |-> v]
YearStr(v) == [kind |-> "intstr", val |-> v]

YearTruthy(yr) == ~(yr.kind \in {"none", "empty"} \/ (yr.kind = "int" /\ yr.val = 0))
\* int(report_year) succeeds
YearParses(yr) == yr.kind \in {"int", "intstr"}

\* election_cycle as received: None, '', a string with a '/', a string
\* without one, or a number; ok says whether int() accepts the part read
CycleNone == [kind |-> "none", ok |-> FALSE, val |-> 0]
CycleEmpty == [kind |-> "empty", ok |-> FALSE, val |-> 0]
CycleSlash(ok, v) == [kind |-> "slash", ok |-> ok, val |-> v]
CyclePlain(ok, v) == [kind |-> "plain", ok |-> ok, val |-> v]
CycleInt(v) == [kind |-> "int", ok |-> TRUE, val |-> v]

\* election_year; 0 stands for None (the code only tests its truthiness
\* before comparing it)
ElectionYear(cycle) ==
    IF cycle.kind \in {"none", "empty"} \/ (cycle.kind = "int" /\ cycle.val = 0) THEN 0
    ELSE IF cycle.ok THEN cycle.val ELSE 0

IsOnCycle(report_year_int, election_year) ==
    IF election_year # 0 THEN report_year_int = election_year ELSE FALSE

\* a period test that accepts a window of either cycle type
PeriodMatches_AnyCycle(period, tx_date, is_on_cycle) ==
    LET start == ToDate(period.filingPeriodStart)
        end == ToDate(period.filingPeriodEnd)
        deadline == ToDate(period.filingPeriodDeadline)
    IN  /\ start # NoDate /\ end # NoDate /\ deadline # NoDate
        /\ DateLE(start, tx_date) /\ DateLE(tx_date, end)

\* the period test inside the scan: dates parse, the window contains tx_date
\* and the window has the cycle type needed
PeriodMatches(period, tx_date, is_on_cycle) ==
    LET start == ToDate(period.filingPeriodStart)
        end == ToDate(period.filingPeriodEnd)
        deadline == ToDate(period.filingPeriodDeadline)
    IN  /\ start # NoDate /\ end # NoDate /\ deadline # NoDate
        /\ DateLE(start, tx_date) /\ DateLE(tx_date, end)
        /\ ((is_on_cycle /\ period.onCycle) \/ (~is_on_cycle /\ ~period.onCycle))

RECURSIVE ScanPeriods_ReportInsideWindow(_, _, _, _, _)
\* mutation: a report filed before the window opens does not count as on time
ScanPeriods_ReportInsideWindow(periods, i, tx_date, rep_date, is_on_cycle) ==
    IF i > Len(periods) THEN "false"
    ELSE IF PeriodMatches(periods[i], tx_date, is_on_cycle)
         THEN (IF /\ DateLE(ToDate(periods[i].filingPeriodStart), rep_date)
                  /\ DateLE(rep_date, ToDate(periods[i].filingPeriodDeadline))
               THEN "true" ELSE "false")
    ELSE ScanPeriods_ReportInsideWindow(periods, i + 1, tx_date, rep_date, is_on_cycle)

RECURSIVE ScanPeriods(_, _, _, _, _)
\* for period in filing_periods: the first matching window decides; no
\* matching window means not on time
ScanPeriods(periods, i, tx_date, rep_date, is_on_cycle) ==
    IF i > Len(periods) THEN "false"
    ELSE IF PeriodMatches(periods[i], tx_date, is_on_cycle)
         THEN (IF DateLE(rep_date, ToDate(periods[i].filingPeriodDeadline))
               THEN "true" ELSE "false")
    ELSE ScanPeriods(periods, i + 1, tx_date, rep_date, is_on_cycle)

\* mutant: missing data reported as late instead of unknown
DetermineOnTimeStatus_MissingIsLate(transaction_date, reported_date, election_cycle, report_year) ==
    IF ~Truthy(transaction_date) \/ ~Truthy(reported_date) \/ ~YearTruthy(report_year)
       \/ ToDate(transaction_date) = NoDate \/ ToDate(reported_date) = NoDate
       \/ ~YearParses(report_year)
    THEN "false"
    ELSE ScanPeriods(GetFilingPeriodsForYear(report_year.val), 1,
                     ToDate(transaction_date), ToDate(reported_date),
                     IsOnCycle(report_year.val, ElectionYear(election_cycle)))

\* mutant: the deadline day itself counts as late (strict comparison)
DetermineOnTimeStatus_Strict(transaction_date, reported_date, election_cycle, report_year) ==
    IF ~Truthy(transaction_date) \/ ~Truthy(reported_date) \/ ~YearTruthy(report_year)
       \/ ToDate(transaction_date) = NoDate \/ ToDate(reported_date) = NoDate
       \/ ~YearParses(report_year)
    THEN "null"
    ELSE ScanPeriods(GetFilingPeriodsForYear(report_year.val), 1,
                     ToDate(transaction_date),
                     Date(ToDate(reported_date).y, ToDate(reported_date).m,
                          ToDate(reported_date).d + 1),
                     IsOnCycle(report_year.val, ElectionYear(election_cycle)))

\* mutant: no matching window reported as unknown instead of late
DetermineOnTimeStatus_MissIsUnknown(transaction_date, reported_date, election_cycle, report_year) ==
    IF ~Truthy(transaction_date) \/ ~Truthy(reported_date) \/ ~YearTruthy(report_year)
       \/ ToDate(transaction_date) = NoDate \/ ToDate(reported_date) = NoDate
       \/ ~YearParses(report_year)
    THEN "null"
    ELSE LET periods == GetFilingPeriodsForYear(report_year.val)
             onc == IsOnCycle(report_year.val, ElectionYear(election_cycle))
         IN IF \E i \in DOMAIN periods : PeriodMatches(periods[i], ToDate(transaction_date), onc)
            THEN ScanPeriods(periods, 1, ToDate(transaction_date), ToDate(reported_date), onc)
            ELSE "null"

\* _determine_on_time_status: "true", "false" or "null" (None)
DetermineOnTimeStatus(transaction_date, reported_date, election_cycle, report_year) ==
    IF ~Truthy(transaction_date) \/ ~Truthy(reported_date) \/ ~YearTruthy(report_year)
    THEN "null"
    ELSE IF ToDate(transaction_date) = NoDate \/ ToDate(reported_date) = NoDate
    THEN "null"
    ELSE IF ~YearParses(report_year)
    THEN "null"
    ELSE ScanPeriods(GetFilingPeriodsForYear(report_year.val), 1,
                     ToDate(transaction_date), ToDate(reported_date),
                     IsOnCycle(report_year.val, ElectionYear(election_cycle)))

\* mutant: the column conversion turns a missing flag into 0
OnTimeColumn_NullIsZero(x) == IF x = "true" THEN "1" ELSE "0"

\* the onTime column conversion of _process_test_mode/_process_production_mode:
\* 1, 0 or <NA> of the nullable Int64 column
OnTimeColumn(x) ==
    IF x = "true" THEN "1"
    ELSE IF x = "false" THEN "0"
    ELSE "<NA>"

-----------------------------------------------------------------------------
(* Specification of the on-time determination                               *)

\* every day of the first half of 2024
FirstHalf2024 == {Date(2024, m, d) : m \in 1..6, d \in 1..31} \cap
                 {dt \in [y : {2024}, m : 1..6, d : 1..31] : ValidDate(dt.y, dt.m, dt.d)}

\* window edges of the second half of 2024 and days outside the year
OtherTxDays ==
    {Date(2024, 7, 1), Date(2024, 8, 31), Date(2024, 9, 1), Date(2024, 10, 24),
     Date(2024, 10, 25), Date(2024, 11, 4), Date(2024, 11, 5), Date(2024, 11, 29),
     Date(2024, 12, 31), Date(2023, 12, 31), Date(2025, 1, 1), Date(2023, 6, 30)}

TxRaws ==
    {Iso(dt.y, dt.m, dt.d) : dt \in FirstHalf2024 \cup OtherTxDays}
    \cup {RawNone, RawEmpty, RawOther, RawGarbage,
          RawStr("%m/%d/%Y", 2024, 6, 30), RawStr("%m/%d/%y", 24, 6, 30),
          RawStr("%Y-%m-%d %H:%M:%S", 2024, 6, 30),
          RawStr("%Y-%m-%d %H:%M:%S.%f", 2024, 6, 30),
          RawStr("%m/%d/%Y %H:%M:%S", 2024, 6, 30),
          RawStr("%Y-%m-%d", 2024, 6, 31), RawDatetime(2024, 6, 30)}

RepRaws ==
    {Iso(2024, 4, 15), Iso(2024, 4, 16), Iso(2024, 6, 10), Iso(2024, 6, 17),
     Iso(2024, 6, 18), Iso(2024, 7, 14), Iso(2024, 7, 15), Iso(2024, 7, 16),
     Iso(2025, 1, 15), Iso(2025, 1, 16), Iso(2023, 7, 15), Iso(2023, 7, 16),
     RawStr("%m/%d/%Y", 2024, 7, 15), RawNone, RawEmpty, RawGarbage}

Cycles ==
    {CycleNone, CycleEmpty, CycleSlash(TRUE, 2024), CycleSlash(TRUE, 2025),
     CycleSlash(FALSE, 0), CyclePlain(TRUE, 2024), CyclePlain(FALSE, 0), CycleInt(2023)}

Years == {YearNone, YearEmpty, YearNaN, YearBad, YearInt(0), YearInt(2024),
          YearInt(2023), YearStr(2024)}

InitOnTime ==
    /\ ot_tx \in TxRaws /\ ot_rep \in RepRaws /\ ot_cycle \in Cycles /\ ot_year \in Years
    /\ ot_status = "pending" /\ ot_column = "pending"
    /\ mp_file = "idle"
    /\ mp_rows = <<>> /\ mp_reports = {} /\ mp_pos = 0 /\ mp_transactions = <<>>
    /\ logged_missing_reports = {} /\ mp_warnings = <<>>
    /\ fl_config = "idle" /\ fl_files = <<>> /\ fl_pos = 0 /\ fl_all_data = <<>>
    /\ fl_skipped = <<>> /\ fl_status = "idle"
    /\ of_office_sought = "idle" /\ of_district = "idle" /\ of_candidate_city = "idle"
    /\ of_office_normal = "idle" /\ of_level = "idle" /\ of_district_normal = "idle"
    /\ of_pc = "idle"
    /\ am_df = <<>> /\ am_threshold = 0 /\ am_latest = {} /\ am_out = {} /\ am_pc = "idle"
    /\ dd_records = <<>> /\ final_records = <<>> /\ exact_duplicates_found = <<>>
    /\ near_duplicates_found = <<>> /\ dd_pc = "idle"
    /\ nm_name = <<>> /\ nm_mode = "none" /\ nm_once = <<>> /\ nm_twice = <<>>
    /\ nm_pc = "idle"
    /\ rs_cm_table = <<>> /\ rs_nv_table = <<>> /\ name_variations = <<>>
    /\ committee_mappings = <<>> /\ normalized_to_committee = <<>>
    /\ schedule_a_df = <<>> /\ schedule_d_df = <<>> /\ batch_size = 0 /\ batch_idx = 0
    /\ unmatched_contributions = <<>> /\ rs_trace = <<>> /\ rs_pc = "idle"

\* one call of _determine_on_time_status while a row is mapped
OT_Determine ==
    /\ ot_status = "pending"
    /\ ot_status' = DetermineOnTimeStatus(ot_tx, ot_rep, ot_cycle, ot_year)
    /\ UNCHANGED <<ot_tx, ot_rep, ot_cycle, ot_year, ot_column>>
    /\ UNCHANGED <<mpVars, amVars, ddVars, nmVars, rsVars, flVars, ofVars>>

\* the onTime column conversion once all rows are mapped
OT_Convert ==
    /\ ot_status \in {"true", "false", "null"} /\ ot_column = "pending"
    /\ ot_column' = OnTimeColumn(ot_status)
    /\ UNCHANGED <<ot_tx, ot_rep, ot_cycle, ot_year, ot_status>>
    /\ UNCHANGED <<mpVars, amVars, ddVars, nmVars, rsVars, flVars, ofVars>>

NextOnTime == OT_Determine \/ OT_Convert

SpecOnTime == InitOnTime /\ [][NextOnTime]_vars

-----------------------------------------------------------------------------
(* Properties of the on-time determination                                  *)

OtDecided == ot_status \in {"true", "false", "null"}

\* a date input that is missing, empty or not a date the function can read
DateUnknown(val) ==
    \/ val.kind \in {"none", "empty", "other"}
    \/ val.kind = "str" /\ (val.fmt \notin Range(ToDateFormats) \/ ~ValidDate(
          IF val.fmt = "%m/%d/%y" THEN (IF val.y < 69 THEN 2000 + val.y ELSE 1900 + val.y)
          ELSE val.y, val.m, val.d))

\* a report year that is missing (None, '', 0) or not an integer
YearUnknown(yr) == yr.kind \in {"none", "empty", "nan", "badstr"} \/ ~YearTruthy(yr)

\* C2: whenever transaction_date, report_date or report_year is missing,
\* empty or unparseable, _determine_on_time_status returns null for every
\* election_cycle, and the onTime column conversion keeps that null as <NA>
\* (never 0 or 1)
C2_UnknownDateSafety ==
    (OtDecided /\ (DateUnknown(ot_tx) \/ DateUnknown(ot_rep) \/ YearUnknown(ot_year)))
        => /\ ot_status = "null"
           /\ ot_column \in {"pending", "<NA>"}

C2_Witness ==
    /\ ot_tx = RawGarbage /\ ot_rep = Iso(2024, 7, 15) /\ ot_year = YearInt(2024)
    /\ ot_cycle = CycleSlash(TRUE, 2024)
    /\ ot_status = "null" /\ ot_column = "<NA>"

\* the filer is off-cycle for report year 2024: no election year can be read,
\* or it differs from 2024
OffCycle2024 ==
    /\ ot_year \in {YearInt(2024), YearStr(2024)}
    /\ ElectionYear(ot_cycle) # 2024

\* C3: with the curated 2024 calendar, for an off-cycle filer and a
\* transaction dated 2024-01-01 through 2024-06-30, the status is true exactly
\* when report_date <= 2024-07-15 and false for every later report date
C3_OnTimeBoundaryInclusive ==
    (OtDecided /\ OffCycle2024 /\ ~DateUnknown(ot_tx) /\ ~DateUnknown(ot_rep)
       /\ ToDate(ot_tx) \in FirstHalf2024)
        => ot_status = (IF Ordinal(ToDate(ot_rep)) <= Ordinal(Date(2024, 7, 15))
                        THEN "true" ELSE "false")

C3_Witness ==
    /\ ot_tx = Iso(2024, 6, 30) /\ ot_rep = Iso(2024, 7, 15) /\ ot_year = YearInt(2024)
    /\ ot_cycle = CycleNone /\ ot_status = "true"

\* some filing window of the report year contains the transaction date and
\* has the cycle type the filer needs
WindowExists ==
    LET periods == GetFilingPeriodsForYear(ot_year.val)
        needOn == (ElectionYear(ot_cycle) # 0 /\ ElectionYear(ot_cycle) = ot_year.val)
        tx == Ordinal(ToDate(ot_tx))
    IN \E i \in DOMAIN periods :
          /\ Ordinal(ToDate(periods[i].filingPeriodStart)) <= tx
          /\ tx <= Ordinal(ToDate(periods[i].filingPeriodEnd))
          /\ periods[i].onCycle = needOn

\* C4: when all three inputs parse but no filing window of the report year
\* both contains transaction_date and has the cycle type required, the status
\* is false (never null, never true), whatever the report date
C4_CalendarMissIsLate ==
    (OtDecided /\ ~DateUnknown(ot_tx) /\ ~DateUnknown(ot_rep) /\ ~YearUnknown(ot_year)
       /\ ~WindowExists)
        => ot_status = "false"

C4_Witness ==
    /\ ot_tx = Iso(2023, 12, 31) /\ ot_rep = Iso(2024, 4, 15) /\ ot_year = YearInt(2024)
    /\ ot_cycle = CycleNone /\ ot_status = "false"

-----------------------------------------------------------------------------
(* Text values.  A name is a sequence of characters; scalar text fields    *)
(* are strings.  NULL stands for None/NaN in a text column.                *)

NULL == "<None>"
NoName == <<NULL>>

\* a numeric column value: a number or None/NaN
Num(v) == [null |-> FALSE, v |-> v]
NumNull == [null |-> TRUE, v |-> 0]

UpperChar(c) ==
    CASE c = "a" -> "A" [] c = "b" -> "B" [] c = "c" -> "C" [] OTHER -> c

\* str.upper()
StrUpper(s) == [i \in DOMAIN s |-> UpperChar(s[i])]

RECURSIVE LStrip(_)
LStrip(s) == IF s # <<>> /\ Head(s) = " " THEN LStrip(Tail(s)) ELSE s

RECURSIVE RStrip(_)
RStrip(s) == IF s # <<>> /\ s[Len(s)] = " " THEN RStrip(SubSeq(s, 1, Len(s) - 1)) ELSE s

\* str.strip()
StrStrip(s) == RStrip(LStrip(s))

Max2(a, b) == IF a >= b THEN a ELSE b

RECURSIVE LcsLen(_, _)
\* length of a longest common subsequence of two character sequences
LcsLen(a, b) ==
    IF a = <<>> \/ b = <<>> THEN 0
    ELSE IF Head(a) = Head(b) THEN 1 + LcsLen(Tail(a), Tail(b))
    ELSE Max2(LcsLen(Tail(a), b), LcsLen(a, Tail(b)))

\* fuzz.ratio: int(round(100 * 2*M / T)), M the matched characters and T the
\* total length of both strings
FuzzRatio(a, b) ==
    IF Len(a) + Len(b) = 0 THEN 0
    ELSE (400 * LcsLen(a, b) + (Len(a) + Len(b))) \div (2 * (Len(a) + Len(b)))

-----------------------------------------------------------------------------
(* Amendment consolidator (amendment_processor.py)                          *)

ParseTransactionDateFormats ==
    <<"%m/%d/%Y", "%Y-%m-%d", "%m/%d/%y", "%Y-%m-%d %H:%M:%S", "%m/%d/%Y %H:%M:%S">>

\* parse_transaction_date
ParseTransactionDate(val) ==
    IF val.kind \in {"none", "empty", "other"} THEN NoDate
    ELSE IF val.kind = "datetime"
         THEN \* str(datetime) reads back under "%Y-%m-%d %H:%M:%S"
              Date(val.y, val.m, val.d)
    ELSE TryFormats(val, ParseTransactionDateFormats, 1)

\* dates_within_month
DatesWithinMonth(date1, date2) ==
    IF date1 = NoDate \/ date2 = NoDate THEN FALSE
    ELSE Abs(Ordinal(date1) - Ordinal(date2)) <= 30

\* fuzzy_name_match on two entity_name_normalized values (never NaN here:
\* the column was filled with 'UNKNOWN')
FuzzyNameMatch(name1, name2, threshold) ==
    IF name1 = <<>> \/ name2 = <<>> THEN name1 = name2
    ELSE IF StrUpper(StrStrip(name1)) = StrUpper(StrStrip(name2)) THEN TRUE
    ELSE FuzzRatio(StrUpper(StrStrip(name1)), StrUpper(StrStrip(name2))) >= threshold

UnknownName == <<"U", "N", "K", "N", "O", "W", "N">>

\* fillna('') of a categorical column
FillEmpty(x) == IF x = NULL THEN "" ELSE x

\* amount.round(2) on an amount held in tenths of a cent (no value lies
\* exactly half way between two cents)
RoundCents(mills) == ((mills + 5) \div 10) * 10

\* df_clean: one cleaned row with its helper columns
CleanRow(r) ==
    [r EXCEPT
        !.committee_code = IF r.committee_code = NULL THEN "UNKNOWN" ELSE r.committee_code,
        !.entity_name_normalized =
            IF r.entity_name_normalized = NoName THEN UnknownName ELSE r.entity_name_normalized,
        !.amount = Num(IF r.amount.null THEN 0 ELSE r.amount.v),
        !.amendment_count = Num(IF r.amendment_count.null THEN 0 ELSE r.amendment_count.v)]

ParsedDate(r) == ParseTransactionDate(r.transaction_date)

\* parsed_date.replace(day=1), None for an unparsed date
DateGroup(r) ==
    LET parsed_date == ParsedDate(r)
    IN IF parsed_date = NoDate THEN NoDate ELSE Date(parsed_date.y, parsed_date.m, 1)

\* mutation: the cleaned name is left out of the groupby key
GroupKey_NoName(r) ==
    LET c == CleanRow(r)
    IN << c.committee_code,
          RoundCents(c.amount.v), DateGroup(r),
          FillEmpty(r.zip_code), FillEmpty(r.committee_type), FillEmpty(r.transaction_type),
          FillEmpty(r.entity_is_individual), FillEmpty(r.entity_zip),
          FillEmpty(r.schedule_type), FillEmpty(r.primary_or_general),
          FillEmpty(r.office_sought_normal), FillEmpty(r.district_normal) >>

\* the groupby key of a row
GroupKey(r) ==
    LET c == CleanRow(r)
    IN << c.committee_code, StrUpper(StrStrip(c.entity_name_normalized)),
          RoundCents(c.amount.v), DateGroup(r),
          FillEmpty(r.zip_code), FillEmpty(r.committee_type), FillEmpty(r.transaction_type),
          FillEmpty(r.entity_is_individual), FillEmpty(r.entity_zip),
          FillEmpty(r.schedule_type), FillEmpty(r.primary_or_general),
          FillEmpty(r.office_sought_normal), FillEmpty(r.district_normal) >>

\* row indices of the group of row i, in table order
GroupOf(df, i) == {j \in DOMAIN df : GroupKey(df[j]) = GroupKey(df[i])}

AmendOf(df, i) == CleanRow(df[i]).amendment_count.v

\* mutation: the maximum is taken over the whole table instead of the set
MaxAmend_WholeTable(df, S) ==
    CHOOSE m \in {AmendOf(df, j) : j \in DOMAIN df} : \A j \in DOMAIN df : AmendOf(df, j) <= m

\* similar_df['amendment_count'].max()
MaxAmend(df, S) == CHOOSE m \in {AmendOf(df, j) : j \in S} : \A j \in S : AmendOf(df, j) <= m

\* similar_mask for row i: i itself, every row already processed (their
\* mask entries are never cleared) and every unprocessed row that matches
\* row i by name and date
SimilarIndices(df, g, i, processed, threshold) ==
    LET name1 == CleanRow(df[i]).entity_name_normalized
        date1 == ParsedDate(df[i])
    IN {j \in g : \/ j = i
                  \/ j \in processed
                  \/ /\ FuzzyNameMatch(name1, CleanRow(df[j]).entity_name_normalized,
                                       threshold)
                     /\ DatesWithinMonth(date1, ParsedDate(df[j]))}

RECURSIVE GroupLoop(_, _, _, _, _, _)
\* for i, row1 in group_df.iterrows(): rows of group g from index i on;
\* st = [processed, latest]
GroupLoop(df, g, i, threshold, processed, latest) ==
    IF i > Len(df) THEN latest
    ELSE IF i \notin g \/ i \in processed
         THEN GroupLoop(df, g, i + 1, threshold, processed, latest)
    ELSE LET similar == SimilarIndices(df, g, i, processed, threshold)
         IN IF Cardinality(similar) > 1
            THEN GroupLoop(df, g, i + 1, threshold, processed \cup similar,
                           latest \cup {j \in similar : AmendOf(df, j) = MaxAmend(df, similar)})
            ELSE GroupLoop(df, g, i + 1, threshold, processed \cup {i}, latest \cup {i})

\* latest_transactions: the row indices kept, over all groups
LatestTransactions(df, threshold) ==
    LET keys == [j \in DOMAIN df |-> GroupKey(df[j])]
    IN UNION { LET g == {j \in DOMAIN df : keys[j] = keys[i]}
               IN IF \E j \in g : j < i THEN {}
                  ELSE IF Cardinality(g) = 1 THEN {i}
                  ELSE GroupLoop(df, g, 1, threshold, {}, {}) : i \in DOMAIN df }

\* get_latest_amendments: the cleaned rows kept, exact repeats removed
GetLatestAmendments(df, threshold) ==
    {CleanRow(df[i]) : i \in LatestTransactions(df, threshold)}

-----------------------------------------------------------------------------
(* Specification of the amendment consolidator                              *)

MaxRows == 3

AB == <<"A", "B">>

BaseRow ==
    [committee_code |-> "CC-24-001", entity_name_normalized |-> AB, amount |-> Num(10000),
     transaction_date |-> Iso(2024, 1, 5), amendment_count |-> Num(0),
     zip_code |-> "23219", committee_type |-> "PAC", transaction_type |-> "ScheduleA",
     entity_is_individual |-> "False", entity_zip |-> "22201", schedule_type |-> "ScheduleA",
     primary_or_general |-> "general", office_sought_normal |-> "delegate",
     district_normal |-> "42"]

\* rows that differ from the base row in name spelling, date and amendment
AmVariants ==
    {[BaseRow EXCEPT !.entity_name_normalized = n, !.transaction_date = d,
                     !.amendment_count = Num(a)] :
        n \in {AB, <<" ", "a", "b">>},
        d \in {Iso(2024, 1, 5), RawGarbage},
        a \in {0, 2}}

\* rows that differ from the base row in one other column
AmSpecials ==
    {[BaseRow EXCEPT !.amount = Num(10001), !.amendment_count = Num(1)],
     [BaseRow EXCEPT !.committee_code = NULL, !.amendment_count = NumNull],
     [BaseRow EXCEPT !.entity_name_normalized = <<>>],
     [BaseRow EXCEPT !.entity_name_normalized = <<" ">>, !.amendment_count = Num(2)],
     [BaseRow EXCEPT !.entity_name_normalized = <<"A", "C">>, !.amendment_count = Num(1)],
     [BaseRow EXCEPT !.transaction_date = RawStr("%m/%d/%Y", 2024, 1, 31),
                     !.amendment_count = Num(1)]}

AmRows == AmVariants \cup AmSpecials

Thresholds == {0, 85}

InitAmend ==
    /\ am_df \in UNION {[1..n -> AmRows] : n \in 0..MaxRows}
    /\ am_threshold \in Thresholds
    /\ am_latest = {} /\ am_out = {} /\ am_pc = "start"
    /\ ot_tx = RawNone /\ ot_rep = RawNone /\ ot_cycle = CycleNone
    /\ ot_year = YearNone /\ ot_status = "idle" /\ ot_column = "idle"
    /\ mp_file = "idle"
    /\ mp_rows = <<>> /\ mp_reports = {} /\ mp_pos = 0 /\ mp_transactions = <<>>
    /\ logged_missing_reports = {} /\ mp_warnings = <<>>
    /\ fl_config = "idle" /\ fl_files = <<>> /\ fl_pos = 0 /\ fl_all_data = <<>>
    /\ fl_skipped = <<>> /\ fl_status = "idle"
    /\ of_office_sought = "idle" /\ of_district = "idle" /\ of_candidate_city = "idle"
    /\ of_office_normal = "idle" /\ of_level = "idle" /\ of_district_normal = "idle"
    /\ of_pc = "idle"
    /\ dd_records = <<>> /\ final_records = <<>> /\ exact_duplicates_found = <<>>
    /\ near_duplicates_found = <<>> /\ dd_pc = "idle"
    /\ nm_name = <<>> /\ nm_mode = "none" /\ nm_once = <<>> /\ nm_twice = <<>>
    /\ nm_pc = "idle"
    /\ rs_cm_table = <<>> /\ rs_nv_table = <<>> /\ name_variations = <<>>
    /\ committee_mappings = <<>> /\ normalized_to_committee = <<>>
    /\ schedule_a_df = <<>> /\ schedule_d_df = <<>> /\ batch_size = 0 /\ batch_idx = 0
    /\ unmatched_contributions = <<>> /\ rs_trace = <<>> /\ rs_pc = "idle"

\* one call of get_latest_amendments(df, fuzzy_threshold)
AM_GetLatestAmendments ==
    /\ am_pc = "start"
    /\ am_latest' = (IF am_df = <<>> THEN {} ELSE LatestTransactions(am_df, am_threshold))
    /\ am_out' = (IF am_df = <<>> THEN {} ELSE {CleanRow(am_df[i]) : i \in am_latest'})
    /\ am_pc' = "done"
    /\ UNCHANGED <<am_df, am_threshold>>
    /\ UNCHANGED <<otVars, mpVars, ddVars, nmVars, rsVars, flVars, ofVars>>

NextAmend == AM_GetLatestAmendments

SpecAmend == InitAmend /\ [][NextAmend]_vars

-----------------------------------------------------------------------------
(* Properties of the amendment consolidator                                 *)

\* C1: for every group of input rows sharing the consolidation grouping key,
\* every row the consolidator outputs for that group has amendment_count
\* equal to the maximum amendment_count over the whole group
C1_AmendmentMonotonicity ==
    am_pc = "done" =>
        \A i \in am_latest : AmendOf(am_df, i) = MaxAmend(am_df, GroupOf(am_df, i))

-----------------------------------------------------------------------------
(* Near-duplicate suppressor (schedulea-e-production_test.py)               *)
(* A record is a function from column names to cells; numeric cells are     *)
(* Num(v) / NumNull, text cells are strings or NULL.  Records are referred  *)
(* to by their position in the input list.                                  *)

\* the columns that hold numbers
NumericFields == {"amount", "report_id", "total_to_date"}

\* record.get(key)
RecGet(record, key) ==
    IF key \in DOMAIN record THEN record[key]
    ELSE IF key \in NumericFields THEN NumNull ELSE NULL

\* str(amount) of a float amount held in cents, as an f-string prints it
AmountStr(c) ==
    ToString(c \div 100) \o "." \o
        (IF (c % 100) % 10 = 0 THEN ToString((c % 100) \div 10)
         ELSE IF c % 100 < 10 THEN "0" \o ToString(c % 100)
         ELSE ToString(c % 100))

\* str(value) of the cell of a column, with the given spelling of None
CellStr(record, key, none) ==
    LET x == RecGet(record, key)
    IN IF key \in NumericFields
       THEN (IF x.null THEN none ELSE AmountStr(x.v))
       ELSE (IF x = NULL THEN none ELSE x)

\* the string get_record_hash digests: one "key:value" item per key, None
\* spelled NULL (the digest is equal exactly when the items are)
GetRecordHash(record) == [k \in DOMAIN record |-> CellStr(record, k, "NULL")]

\* count_field_differences(record1, record2, exclude_fields)
CountFieldDifferences(record1, record2, exclude_fields) ==
    Cardinality({key \in (DOMAIN record1 \cup DOMAIN record2) \ exclude_fields :
                    RecGet(record1, key) # RecGet(record2, key)})

\* a or b on text cells
PyOr(a, b) == IF a # NULL /\ a # "" THEN a ELSE b

\* the first truthy of the five counter-party columns
EntityOf(record) ==
    PyOr(RecGet(record, "entity_name"),
    PyOr(RecGet(record, "recipient_name"),
    PyOr(RecGet(record, "donor_name"),
    PyOr(RecGet(record, "payee_name"), RecGet(record, "vendor_name")))))

\* mutation: the bucket key leaves the amount out
DedupGroupKey_NoAmount(record) ==
    CellStr(record, "transaction_date", "None") \o "|" \o
    CellStr(record, "candidate_name", "None") \o "|" \o
    (IF EntityOf(record) = NULL THEN "None" ELSE EntityOf(record))

\* group_key = f"{amount}|{transaction_date}|{candidate_name}|{entity}"
DedupGroupKey(record) ==
    CellStr(record, "amount", "None") \o "|" \o
    CellStr(record, "transaction_date", "None") \o "|" \o
    CellStr(record, "candidate_name", "None") \o "|" \o
    (IF EntityOf(record) = NULL THEN "None" ELSE EntityOf(record))

FlexibleFields == {"reportid", "report_date", "ontime", "folder_name"}

ExtendedFlexibleFields ==
    FlexibleFields \cup {"amount", "transaction_date", "candidate_name", "entity_name",
                         "recipient_name", "donor_name", "payee_name", "vendor_name"}

\* positions 1..n as a list
Positions(n) == [i \in 1..n |-> i]

\* Step 1: positions of the records kept by the exact-duplicate pass
ExactDeduplicated(records) ==
    SelectSeq(Positions(Len(records)),
              LAMBDA i : \A j \in 1..(i - 1) :
                            GetRecordHash(records[j]) # GetRecordHash(records[i]))

\* Step 1: the (original_index, duplicate_index) pairs it reports
ExactDuplicatesFound(records) ==
    LET dups == SelectSeq(Positions(Len(records)),
                          LAMBDA i : \E j \in 1..(i - 1) :
                                GetRecordHash(records[j]) = GetRecordHash(records[i]))
    IN [n \in DOMAIN dups |->
          [original_index |-> CHOOSE j \in 1..(dups[n] - 1) :
                                 /\ GetRecordHash(records[j]) = GetRecordHash(records[dups[n]])
                                 /\ \A k \in 1..(j - 1) :
                                       GetRecordHash(records[k]) # GetRecordHash(records[dups[n]]),
           duplicate_index |-> dups[n]]]

\* Step 2: the first member of every bucket, in dict insertion order
GroupFirsts(records) ==
    LET ed == ExactDeduplicated(records)
    IN SelectSeq(ed, LAMBDA i : \A j \in Range(ed) :
                    j < i => DedupGroupKey(records[j]) # DedupGroupKey(records[i]))

\* Step 2: the bucket of a key, in input order
DuplicateGroup(records, first) ==
    SelectSeq(ExactDeduplicated(records),
              LAMBDA i : DedupGroupKey(records[i]) = DedupGroupKey(records[first]))

\* a comparison against every earlier record of the bucket, kept or dropped
MatchedRecord_AnyEarlier(records, group_unique, i) ==
    LET hits == {j \in 1..(i - 1) :
                    /\ DedupGroupKey(records[j]) = DedupGroupKey(records[i])
                    /\ CountFieldDifferences(records[i], records[j],
                                             ExtendedFlexibleFields) <= 2}
    IN IF hits = {} THEN 0
       ELSE CHOOSE j \in hits : \A m \in hits : j <= m

\* mutation: only the record kept last is compared
MatchedRecord_LastKeptOnly(records, group_unique, i) ==
    IF group_unique = <<>> THEN 0
    ELSE IF CountFieldDifferences(records[i], records[group_unique[Len(group_unique)]],
                                  ExtendedFlexibleFields) <= 2
         THEN group_unique[Len(group_unique)]
    ELSE 0

\* the first kept record of the bucket within two differences, 0 if none
MatchedRecord(records, group_unique, i) ==
    LET hits == {n \in DOMAIN group_unique :
                    CountFieldDifferences(records[i], records[group_unique[n]],
                                          ExtendedFlexibleFields) <= 2}
    IN IF hits = {} THEN 0
       ELSE group_unique[CHOOSE n \in hits : \A m \in hits : n <= m]

\* Step 3: the greedy pass over one bucket, from member k on
RECURSIVE GroupUnique(_, _, _, _, _)
GroupUnique(records, group, k, group_unique, found) ==
    IF k > Len(group) THEN [group_unique |-> group_unique, found |-> found]
    ELSE LET m == MatchedRecord(records, group_unique, group[k])
         IN IF m = 0
            THEN GroupUnique(records, group, k + 1, Append(group_unique, group[k]), found)
            ELSE GroupUnique(records, group, k + 1, group_unique,
                             Append(found, [original_index |-> m,
                                            duplicate_index |-> group[k]]))

\* Step 3 over the buckets from bucket g on
RECURSIVE DedupLoop(_, _, _, _, _)
DedupLoop(records, firsts, g, final, found) ==
    IF g > Len(firsts) THEN [final_records |-> final, near_duplicates_found |-> found]
    ELSE LET group == DuplicateGroup(records, firsts[g])
         IN IF Len(group) = 1
            THEN DedupLoop(records, firsts, g + 1, Append(final, group[1]), found)
            ELSE LET r == GroupUnique(records, group, 1, <<>>, <<>>)
                 IN DedupLoop(records, firsts, g + 1, final \o r.group_unique,
                              found \o r.found)

\* deduplicate_records(records)
DeduplicateRecords(records) ==
    IF records = <<>> THEN [final_records |-> <<>>, near_duplicates_found |-> <<>>]
    ELSE DedupLoop(records, GroupFirsts(records), 1, <<>>, <<>>)

(* Specification of the suppressor: deduplicate_records is applied to every *)
(* list of at most MaxRecords records drawn from DdRows.                    *)

MaxRecords == 3

DdBase ==
    [amount |-> Num(1000), transaction_date |-> "2024-01-05", candidate_name |-> "SMITH",
     entity_name |-> "ACME", report_id |-> Num(100), report_date |-> "2024-01-15",
     onTime |-> "1", folder_name |-> "2024_01", purpose |-> "ADS", entity_city |-> "RVA"]

DdRows ==
    {DdBase,
     [DdBase EXCEPT !.report_date = "2024-02-15", !.folder_name = "2024_02"],
     [DdBase EXCEPT !.amount = Num(1002)],
     [DdBase EXCEPT !.amount = Num(1002), !.report_date = "2024-02-15",
                    !.folder_name = "2024_02"],
     [DdBase EXCEPT !.report_id = Num(200), !.onTime = "0"],
     [DdBase EXCEPT !.report_id = Num(200), !.onTime = "0", !.purpose = "MAIL"],
     [DdBase EXCEPT !.report_id = Num(200), !.onTime = "0", !.purpose = "MAIL",
                    !.entity_city = "NOVA"],
     [DdBase EXCEPT !.purpose = "MAIL", !.entity_city = "NOVA",
                    !.report_date = "2024-02-15"],
     [DdBase EXCEPT !.entity_name = ""],
     [DdBase EXCEPT !.entity_name = NULL, !.purpose = NULL],
     [DdBase EXCEPT !.amount = NumNull],
     [DdBase EXCEPT !.candidate_name = NULL, !.transaction_date = NULL]}

InitDedup ==
    /\ dd_records \in UNION {[1..n -> DdRows] : n \in 0..MaxRecords}
    /\ final_records = <<>> /\ exact_duplicates_found = <<>>
    /\ near_duplicates_found = <<>> /\ dd_pc = "ready"
    /\ ot_tx = RawNone /\ ot_rep = RawNone /\ ot_cycle = CycleNone /\ ot_year = YearNone
    /\ ot_status = "idle" /\ ot_column = "idle"
    /\ mp_file = "idle"
    /\ mp_rows = <<>> /\ mp_reports = {} /\ mp_pos = 0 /\ mp_transactions = <<>>
    /\ logged_missing_reports = {} /\ mp_warnings = <<>>
    /\ fl_config = "idle" /\ fl_files = <<>> /\ fl_pos = 0 /\ fl_all_data = <<>>
    /\ fl_skipped = <<>> /\ fl_status = "idle"
    /\ of_office_sought = "idle" /\ of_district = "idle" /\ of_candidate_city = "idle"
    /\ of_office_normal = "idle" /\ of_level = "idle" /\ of_district_normal = "idle"
    /\ of_pc = "idle"
    /\ am_df = <<>> /\ am_threshold = 0 /\ am_latest = {} /\ am_out = {} /\ am_pc = "idle"
    /\ nm_name = <<>> /\ nm_mode = "none" /\ nm_once = <<>> /\ nm_twice = <<>>
    /\ nm_pc = "idle"
    /\ rs_cm_table = <<>> /\ rs_nv_table = <<>> /\ name_variations = <<>>
    /\ committee_mappings = <<>> /\ normalized_to_committee = <<>>
    /\ schedule_a_df = <<>> /\ schedule_d_df = <<>> /\ batch_size = 0 /\ batch_idx = 0
    /\ unmatched_contributions = <<>> /\ rs_trace = <<>> /\ rs_pc = "idle"

\* deduplicate_records(records)
DD_DeduplicateRecords ==
    /\ dd_pc = "ready"
    /\ final_records' = DeduplicateRecords(dd_records).final_records
    /\ exact_duplicates_found' =
          (IF dd_records = <<>> THEN <<>> ELSE ExactDuplicatesFound(dd_records))
    /\ near_duplicates_found' = DeduplicateRecords(dd_records).near_duplicates_found
    /\ dd_pc' = "done"
    /\ UNCHANGED <<dd_records, otVars, mpVars, amVars, nmVars, rsVars, flVars, ofVars>>

NextDedup == DD_DeduplicateRecords

SpecDedup == InitDedup /\ [][NextDedup]_vars

-----------------------------------------------------------------------------
(* Properties of the suppressor                                             *)

\* the two records agree on every column outside the given set
SameExcept(r1, r2, cols) ==
    \A k \in (DOMAIN r1 \cup DOMAIN r2) \ cols : RecGet(r1, k) = RecGet(r2, k)

\* some reported duplicate pair links positions i and j
Linked(i, j) ==
    \E n \in DOMAIN exact_duplicates_found \cup DOMAIN near_duplicates_found :
        \/ /\ n \in DOMAIN exact_duplicates_found
           /\ {exact_duplicates_found[n].original_index,
               exact_duplicates_found[n].duplicate_index} = {i, j}
        \/ /\ n \in DOMAIN near_duplicates_found
           /\ {near_duplicates_found[n].original_index,
               near_duplicates_found[n].duplicate_index} = {i, j}

-----------------------------------------------------------------------------
(* Entity/committee resolver and cross-schedule matcher                     *)
(* (unmatched_contributions_analysis_optimized.py).  Names and committee    *)
(* codes are character sequences, NoName stands for None/NaN, amounts are   *)
(* whole cents.                                                             *)

LowerChar(c) ==
    CASE c = "A" -> "a" [] c = "C" -> "c" [] c = "J" -> "j" [] c = "N" -> "n"
      [] c = "O" -> "o" [] c = "P" -> "p" [] c = "T" -> "t" [] c = "X" -> "x"
      [] c = "Z" -> "z" [] OTHER -> c

\* str.lower()
StrLower(s) == [i \in DOMAIN s |-> LowerChar(s[i])]

\* the sentinel candidate name of a committee that is not a candidate committee
NOT_A_CC == <<"N", "O", "T", " ", "A", " ", "C", "C">>

\* a committee_mappings entry
Committee(code, committee_name, candidate_name) ==
    [committee_code |-> code, committee_name_normalized |-> committee_name,
     candidate_name_normalized |-> candidate_name]

\* the value None where a committee is expected
NoCommittee == Committee(NoName, NoName, NoName)

\* d[key] = value on a dict held as a function
DictPut(d, key, value) == [k \in DOMAIN d \cup {key} |-> IF k = key THEN value ELSE d[k]]

\* committee_mappings[code] = info on the insertion-ordered dict, held as the
\* list of its values
MappingPut(mappings, info) ==
    IF \E n \in DOMAIN mappings : mappings[n].committee_code = info.committee_code
    THEN [n \in DOMAIN mappings |->
            IF mappings[n].committee_code = info.committee_code THEN info ELSE mappings[n]]
    ELSE Append(mappings, info)

\* the reverse index after one row of the committee_mappings table
ReversePut(index, info) ==
    LET byName == IF info.committee_name_normalized \notin {NoName, <<>>}
                  THEN DictPut(index, StrLower(info.committee_name_normalized), info)
                  ELSE index
    IN IF info.candidate_name_normalized # NOT_A_CC
       THEN DictPut(byName, StrLower(info.candidate_name_normalized), info)
       ELSE byName

RECURSIVE LoadMappings(_, _, _)
\* load_lookup_tables: committee_mappings after rows k.. of the table
LoadMappings(rows, k, mappings) ==
    IF k > Len(rows) THEN mappings
    ELSE LoadMappings(rows, k + 1, MappingPut(mappings, rows[k]))

RECURSIVE LoadReverse(_, _, _)
\* load_lookup_tables: normalized_to_committee after rows k.. of the table
LoadReverse(rows, k, index) ==
    IF k > Len(rows) THEN index
    ELSE LoadReverse(rows, k + 1, ReversePut(index, rows[k]))

RECURSIVE LoadVariations(_, _, _)
\* load_lookup_tables: name_variations[variation.lower()] = normalized_name
LoadVariations(rows, k, d) ==
    IF k > Len(rows) THEN d
    ELSE LoadVariations(rows, k + 1,
                        DictPut(d, StrLower(rows[k].name_variation), rows[k].normalized_name))

\* load_lookup_tables raises: candidate_name.lower() on a NULL candidate name
LoadRaises(rows) == \E k \in DOMAIN rows : rows[k].candidate_name_normalized = NoName

Digits == {"0", "1", "2", "3", "4", "5", "6", "7", "8", "9"}

DigitVal(c) == CHOOSE n \in 0..9 : ToString(n) = c

\* re.match(r'CC-(\d{2})-', str(committee_code))
MatchesCodePattern(code) ==
    /\ Len(code) >= 6
    /\ SubSeq(code, 1, 3) = <<"C", "C", "-">>
    /\ code[4] \in Digits /\ code[5] \in Digits
    /\ code[6] = "-"

\* the four-digit year a matching code encodes
CommitteeYear(code) ==
    LET committee_year_suffix == 10 * DigitVal(code[4]) + DigitVal(code[5])
    IN IF committee_year_suffix < 50 THEN 2000 + committee_year_suffix
       ELSE 1900 + committee_year_suffix

RECURSIVE SelectLoop_LastOnTie(_, _, _, _, _)
\* mutation: a later committee at the same distance replaces the best one
SelectLoop_LastOnTie(committees_list, k, filing_year, best_committee, min_year_diff) ==
    IF k > Len(committees_list) THEN best_committee
    ELSE LET committee == committees_list[k]
             code == committee.committee_code
         IN IF code = NoName \/ ~MatchesCodePattern(code)
            THEN SelectLoop_LastOnTie(committees_list, k + 1, filing_year,
                                      best_committee, min_year_diff)
            ELSE LET year_diff == Abs(filing_year - CommitteeYear(code))
                 IN IF best_committee = NoCommittee \/ year_diff <= min_year_diff
                    THEN SelectLoop_LastOnTie(committees_list, k + 1, filing_year,
                                              committee, year_diff)
                    ELSE SelectLoop_LastOnTie(committees_list, k + 1, filing_year,
                                              best_committee, min_year_diff)

RECURSIVE SelectLoop(_, _, _, _, _)
\* the loop of select_closest_committee_by_year from committee k on;
\* best_committee = None exactly while min_year_diff is still infinite
SelectLoop(committees_list, k, filing_year, best_committee, min_year_diff) ==
    IF k > Len(committees_list) THEN best_committee
    ELSE LET committee == committees_list[k]
             code == committee.committee_code
         IN IF code = NoName \/ ~MatchesCodePattern(code)
            THEN SelectLoop(committees_list, k + 1, filing_year, best_committee, min_year_diff)
            ELSE LET year_diff == Abs(filing_year - CommitteeYear(code))
                 IN IF best_committee = NoCommittee \/ year_diff < min_year_diff
                    THEN SelectLoop(committees_list, k + 1, filing_year, committee, year_diff)
                    ELSE SelectLoop(committees_list, k + 1, filing_year,
                                    best_committee, min_year_diff)

\* select_closest_committee_by_year(committees_list, filing_year)
SelectClosestCommitteeByYear(committees_list, filing_year) ==
    SelectLoop(committees_list, 1, filing_year, NoCommittee, 0)

\* the committees of the mapping that carry the given candidate name
AllCandidateCommittees(mappings, candidate_name) ==
    SelectSeq(mappings, LAMBDA info : info.candidate_name_normalized = candidate_name)

\* Steps 1 and 2 of find_matching_committee_batch for one recipient: the
\* variation lookup, else (only when the name is no variation) the direct one
LookupCommittee(recipient_name, variations, index) ==
    LET recipient_clean == StrStrip(StrLower(recipient_name))
    IN IF recipient_clean \in DOMAIN variations
       THEN (IF StrLower(variations[recipient_clean]) \in DOMAIN index
             THEN index[StrLower(variations[recipient_clean])]
             ELSE NoCommittee)
       ELSE IF recipient_clean \in DOMAIN index THEN index[recipient_clean]
       ELSE NoCommittee

\* find_matching_committee_batch for one recipient of the batch
FindMatchingCommittee(recipient_name, filing_year, variations, mappings, index) ==
    IF mappings = <<>> /\ DOMAIN variations = {} THEN NoCommittee
    ELSE IF recipient_name = NoName \/ StrStrip(recipient_name) = <<>> THEN NoCommittee
    ELSE LET matched_committee == LookupCommittee(recipient_name, variations, index)
         IN IF matched_committee = NoCommittee THEN NoCommittee
            ELSE LET all_candidate_committees ==
                        AllCandidateCommittees(mappings,
                                               matched_committee.candidate_name_normalized)
                 IN IF Len(all_candidate_committees) > 1
                    THEN LET best_committee ==
                                SelectClosestCommitteeByYear(all_candidate_committees,
                                                             filing_year)
                         IN IF best_committee # NoCommittee THEN best_committee
                            ELSE matched_committee
                    ELSE matched_committee

\* [^\w\s] over the characters of the model
Punctuation == {".", ",", "-", "&", "'"}

RECURSIVE Squeeze(_)
\* runs of blanks become one blank
Squeeze(s) ==
    IF Len(s) < 2 THEN s
    ELSE IF s[1] = " " /\ s[2] = " " THEN Squeeze(Tail(s))
    ELSE <<s[1]>> \o Squeeze(Tail(s))

\* ' '.join(text.split())
NormalizeSpaces(s) == Squeeze(StrStrip(s))

\* re.sub(r'\s+pac\s*$', '', text)
StripTrailingPac(s) ==
    LET t == RStrip(s)
    IN IF Len(t) >= 4 /\ SubSeq(t, Len(t) - 3, Len(t)) = <<" ", "p", "a", "c">>
       THEN RStrip(SubSeq(t, 1, Len(t) - 4))
       ELSE s

\* clean_committee_name(name); the word patterns of patterns_to_remove and the
\* inc/llc/corp suffixes need letters the names of the model do not contain
CleanCommitteeName(name) ==
    IF name = NoName THEN <<>>
    ELSE LET lowered == NormalizeSpaces(StrLower(name))
             nopunct == [i \in DOMAIN lowered |->
                            IF lowered[i] \in Punctuation THEN " " ELSE lowered[i]]
         IN NormalizeSpaces(StripTrailingPac(nopunct))

\* pd.to_datetime(value, errors='coerce'): NaT (NoDate) for a missing or
\* unparseable value
PdToDatetime(val) ==
    IF val.kind = "datetime" THEN Date(val.y, val.m, val.d)
    ELSE IF val.kind = "str" THEN TryFormats(val, ToDateFormats, 1)
    ELSE NoDate

\* pd.to_datetime(value) without errors='coerce' raises on a text that is no date
PdRaises(val) == val.kind = "str" /\ PdToDatetime(val) = NoDate

\* (a - b).days
DaysBetween(a, b) == Ordinal(a) - Ordinal(b)

\* a disbursement (Schedule D) row of the query
Disbursement(recipient_norm, recipient, year, date, amount, donor, donor_norm) ==
    [recipient_name_normalized |-> recipient_norm, recipient_name |-> recipient,
     report_year |-> year, transaction_date |-> date, amount |-> amount,
     donor_committee_name |-> donor, donor_committee_name_normalized |-> donor_norm]

\* a receipt (Schedule A) row of the query
Receipt(code, donor, donor_norm, amount, date) ==
    [recipient_committee_code |-> code, donor_name |-> donor,
     donor_name_normalized |-> donor_norm, amount |-> amount, transaction_date |-> date,
     recipient_candidate_name |-> NoName]

\* a name is missing or blank
Blank(name) == name = NoName \/ StrStrip(name) = <<>>

\* the receipt's donor name as compared: the stored normalized name, else the
\* cleaned raw name
ReceiptDonorNormalized(a_row) ==
    IF a_row.donor_name_normalized \in {NoName, <<>>}
    THEN CleanCommitteeName(a_row.donor_name)
    ELSE a_row.donor_name_normalized

\* the disbursing committee's name as compared
DonorNormalized(d_row) ==
    IF d_row.donor_committee_name_normalized \in {NoName, <<>>}
    THEN CleanCommitteeName(d_row.donor_committee_name)
    ELSE d_row.donor_committee_name_normalized

\* name_match = (donor_normalized.lower() == receipt_donor_normalized.lower())
NameMatch(d_row, a_row) ==
    StrLower(DonorNormalized(d_row)) = StrLower(ReceiptDonorNormalized(a_row))

\* mutation: every receipt amount counts as equal
AmountMatch_Any(d_row, a_row) == TRUE

\* amount_match = abs(a_row['amount'] - amount) <= 0.01
AmountMatch(d_row, a_row) == Abs(a_row.amount - d_row.amount) <= 1

\* date_match: the window test when both dates parse, True otherwise
DateMatch(d_row, a_row) ==
    LET a_date == PdToDatetime(a_row.transaction_date)
        d_date == PdToDatetime(d_row.transaction_date)
    IN IF a_date # NoDate /\ d_date # NoDate
       THEN DaysBetween(a_date, d_date) <= 60 /\ DaysBetween(a_date, d_date) >= -30
       ELSE TRUE

\* the receipts of one committee code
ScheduleASubset(receipts, code) ==
    SelectSeq(receipts, LAMBDA a_row : a_row.recipient_committee_code = code)

\* find_matching_schedule_a_batch for one item (d_row, matched_committee,
\* schedule_a_subset), for a d_row whose date does not raise.  The loop stops
\* at the first receipt that matches on amount, date and name; without one it
\* visits every receipt, so both flags are existential.  info tells which
\* match_info is returned: "empty" ({}), "reason" or "reasons".
FindMatchingScheduleA(d_row, matched_committee, schedule_a_subset) ==
    IF matched_committee = NoCommittee
    THEN [has_match |-> FALSE, info |-> "empty", reason |-> ""]
    ELSE IF Blank(d_row.donor_committee_name)
    THEN [has_match |-> FALSE, info |-> "empty", reason |-> ""]
    ELSE IF schedule_a_subset = <<>>
    THEN [has_match |-> FALSE, info |-> "reason", reason |-> "no_schedule_a_receipts"]
    ELSE LET usable == {k \in DOMAIN schedule_a_subset :
                            ~Blank(schedule_a_subset[k].donor_name)}
             date_amount_match ==
                 \E k \in usable : /\ AmountMatch(d_row, schedule_a_subset[k])
                                   /\ DateMatch(d_row, schedule_a_subset[k])
             found_match ==
                 \E k \in usable : /\ AmountMatch(d_row, schedule_a_subset[k])
                                   /\ DateMatch(d_row, schedule_a_subset[k])
                                   /\ NameMatch(d_row, schedule_a_subset[k])
         IN IF found_match THEN [has_match |-> TRUE, info |-> "empty", reason |-> ""]
            ELSE [has_match |-> FALSE, info |-> "reasons",
                  reason |-> IF date_amount_match THEN "yes date + amount match combo"
                             ELSE "no date + amount match combo"]

\* recipient_names entry of a row: the stripped normalized name, else the raw one
RecipientNameOf(d_row) ==
    IF ~Blank(d_row.recipient_name_normalized) THEN StrStrip(d_row.recipient_name_normalized)
    ELSE d_row.recipient_name

\* filing_years entry of a row; the query keeps rows with report_year >=
\* min_year only, so report_year is never NULL here
FilingYearOf(d_row) == d_row.report_year

\* the committee a row's recipient resolves to
ResolvedCommittee(d_row, variations, mappings, index) ==
    FindMatchingCommittee(RecipientNameOf(d_row), FilingYearOf(d_row),
                          variations, mappings, index)

\* mutation: the retry stops after the first other committee code
FoundAlternateMatch_FirstSiblingOnly(d_row, matched_committee, receipts, mappings) ==
    LET candidate_name == matched_committee.candidate_name_normalized
        all == AllCandidateCommittees(mappings, candidate_name)
        others == {n \in DOMAIN all :
                      all[n].committee_code # matched_committee.committee_code}
    IN /\ ~Blank(candidate_name)
       /\ candidate_name # NOT_A_CC
       /\ \E n \in others :
             /\ \A m \in others : n <= m
             /\ ScheduleASubset(receipts, all[n].committee_code) # <<>>
             /\ FindMatchingScheduleA(d_row, all[n],
                    ScheduleASubset(receipts, all[n].committee_code)).has_match

\* the retry over the other committee codes of the same candidate
FoundAlternateMatch(d_row, matched_committee, receipts, mappings) ==
    LET candidate_name == matched_committee.candidate_name_normalized
    IN /\ ~Blank(candidate_name)
       /\ candidate_name # NOT_A_CC
       /\ \E n \in DOMAIN AllCandidateCommittees(mappings, candidate_name) :
             LET alt_committee == AllCandidateCommittees(mappings, candidate_name)[n]
                 alt_schedule_a == ScheduleASubset(receipts, alt_committee.committee_code)
             IN /\ alt_committee.committee_code # matched_committee.committee_code
                /\ alt_schedule_a # <<>>
                /\ FindMatchingScheduleA(d_row, alt_committee, alt_schedule_a).has_match

\* what the batch loop does with one row: the lookup result, the committee
\* after the year tie-break, the two match flags and the record it appends
RowOutcome(d_row, receipts, variations, mappings, index) ==
    LET matched_committee == ResolvedCommittee(d_row, variations, mappings, index)
        result == FindMatchingScheduleA(d_row, matched_committee,
                     ScheduleASubset(receipts, matched_committee.committee_code))
        alternate == /\ matched_committee # NoCommittee
                     /\ FoundAlternateMatch(d_row, matched_committee, receipts, mappings)
    IN [lookup |-> IF Blank(RecipientNameOf(d_row)) THEN NoCommittee
                   ELSE LookupCommittee(RecipientNameOf(d_row), variations, index),
        filing_year |-> FilingYearOf(d_row),
        matched_committee |-> matched_committee,
        has_match |-> result.has_match,
        found_alternate_match |-> alternate,
        reported |-> matched_committee # NoCommittee /\ ~result.has_match /\ ~alternate,
        failure_reason |-> IF result.info = "empty" THEN "unknown" ELSE result.reason]

\* total_batches = len // batch_size + (1 if len % batch_size else 0)
TotalBatches(n, size) == (n \div size) + (IF n % size # 0 THEN 1 ELSE 0)

\* the rows of batch number idx (counted from 0)
BatchRows(n, size, idx) ==
    {i \in 1..n : idx * size < i /\ i <= idx * size + size}

\* text.lower().split()
RECURSIVE SplitWords(_)
SplitWords(s) ==
    LET t == LStrip(s)
    IN IF t = <<>> THEN <<>>
       ELSE LET n == IF \E k \in DOMAIN t : t[k] = " "
                     THEN (CHOOSE k \in DOMAIN t :
                              t[k] = " " /\ \A j \in 1..(k - 1) : t[j] # " ") - 1
                     ELSE Len(t)
            IN <<SubSeq(t, 1, n)>> \o SplitWords(SubSeq(t, n + 1, Len(t)))

\* lines 278-285: a receipt's candidate shares the first or the last word of
\* the candidate name, both names having two words or more; str(None) is the
\* one word 'None'
SimilarCandidate(candidate_name, receipt_candidate) ==
    LET candidate_parts == SplitWords(StrLower(candidate_name))
        receipt_parts == IF receipt_candidate = NoName THEN <<NoName>>
                         ELSE SplitWords(StrLower(receipt_candidate))
    IN /\ candidate_name # NoName /\ candidate_name # <<>>
       /\ receipt_candidate # <<>>
       /\ Len(candidate_parts) >= 2 /\ Len(receipt_parts) >= 2
       /\ \/ candidate_parts[1] \in Range(receipt_parts)
          \/ candidate_parts[Len(candidate_parts)] \in Range(receipt_parts)

\* lines 271-290: available_codes, read from all_schedule_a = batch_data[0][2]
AvailableCodes(candidate_name, all_schedule_a) ==
    {all_schedule_a[k].recipient_committee_code :
        k \in {k \in DOMAIN all_schedule_a :
                  SimilarCandidate(candidate_name, all_schedule_a[k].recipient_candidate_name)}}

\* batch_data[0][2]: the Schedule A subset of the first row of the batch
\* whose recipient resolved to a committee
FirstSubsetOfBatch(rows, d_rows, receipts, variations, mappings, index) ==
    LET valid == {i \in rows :
                    ResolvedCommittee(d_rows[i], variations, mappings, index) # NoCommittee}
    IN IF valid = {} THEN <<>>
       ELSE LET i == CHOOSE i \in valid : \A j \in valid : i <= j
            IN ScheduleASubset(receipts,
                   ResolvedCommittee(d_rows[i], variations, mappings, index).committee_code)

\* the contribution_record appended for row i; available_committee_codes is
\* set only with the failure reason 'no_schedule_a_receipts' (lines 711-714)
ContributionRecord(i, d_row, outcome, all_schedule_a) ==
    [index |-> i, row |-> d_row,
     matched_committee_code |-> outcome.matched_committee.committee_code,
     failure_reason |-> outcome.failure_reason,
     available_committee_codes |->
         IF outcome.failure_reason = "no_schedule_a_receipts"
         THEN [present |-> TRUE,
               codes |-> AvailableCodes(outcome.matched_committee.candidate_name_normalized,
                                        all_schedule_a)]
         ELSE [present |-> FALSE, codes |-> {}]]

(* Specification of the resolver: get_unmatched_contributions_optimized     *)
(* runs over bounded lookup tables, receipts and disbursements.             *)

MaxDisbursements == 2
MaxReceipts == 2

JO == <<"J", "O">>
JA == <<"J", "A">>
JC == <<"J", "C">>
JX == <<"J", "X">>
ZZ == <<"Z", "Z">>
PA == <<"P", "A">>
PX == <<"P", "X">>
CC18 == <<"C", "C", "-", "1", "8", "-", "1">>
CC22 == <<"C", "C", "-", "2", "2", "-", "1">>
CC99 == <<"C", "C", "-", "9", "9", "-", "1">>
XC18 == <<"X", "C", "-", "1", "8", "-", "1">>
XC21 == <<"X", "C", "-", "2", "1", "-", "1">>
PAC1 == <<"P", "A", "C", "-", "1">>

\* contents of the committee_mappings table
CmTables ==
    {<<Committee(CC18, JA, JO), Committee(CC22, JC, JO), Committee(PAC1, PX, NOT_A_CC)>>,
     <<Committee(CC22, JC, JO), Committee(CC18, JA, JO)>>,
     <<Committee(XC21, JA, JO), Committee(CC99, JC, JO), Committee(CC18, JX, JO)>>,
     <<Committee(XC21, JA, JO), Committee(XC18, JC, JO)>>,
     <<Committee(CC18, JA, JO)>>,
     <<Committee(CC18, JA, NoName)>>,
     <<Committee(CC18, JA, NOT_A_CC), Committee(CC22, JC, NOT_A_CC)>>,
     <<>>}

CmMain == <<Committee(CC18, JA, JO), Committee(CC22, JC, JO), Committee(PAC1, PX, NOT_A_CC)>>

\* contents of the name_variations table
NvMain ==
    <<[name_variation |-> JX, normalized_name |-> JO],
      [name_variation |-> JA, normalized_name |-> ZZ]>>

NvTables == {<<>>, NvMain}

DBase == Disbursement(JO, JC, 2021, Iso(2024, 3, 1), 100000, PA, PA)

\* disbursements that differ in how the recipient is written and in the year
DResolveRows ==
    {[DBase EXCEPT !.recipient_name_normalized = n, !.report_year = y] :
        n \in {JO, <<" ", "j", "o", " ">>, JA, JX, ZZ, <<>>},
        y \in {2018, 2020, 2021}}

\* disbursements that differ in date, donor and recipient
DRows ==
    {DBase,
     [DBase EXCEPT !.transaction_date = RawNone],
     [DBase EXCEPT !.transaction_date = RawGarbage],
     [DBase EXCEPT !.recipient_name_normalized = ZZ, !.recipient_name = ZZ],
     [DBase EXCEPT !.donor_committee_name_normalized = <<>>,
                   !.donor_committee_name = <<"P", "a", " ", "P", "a", "c", ".">>],
     [DBase EXCEPT !.donor_committee_name = <<" ">>],
     [DBase EXCEPT !.report_year = 2018]}

DMatchRows ==
    {DBase,
     [DBase EXCEPT !.transaction_date = RawNone],
     [DBase EXCEPT !.donor_committee_name_normalized = <<>>,
                   !.donor_committee_name = <<"P", "a", " ", "P", "a", "c", ".">>]}

ABase == Receipt(CC22, PA, PA, 100000, Iso(2024, 3, 1))

\* receipts that differ from the base receipt in one column
ARows ==
    {ABase,
     [ABase EXCEPT !.transaction_date = Iso(2024, 4, 30)],
     [ABase EXCEPT !.transaction_date = Iso(2024, 5, 1)],
     [ABase EXCEPT !.transaction_date = Iso(2024, 1, 31)],
     [ABase EXCEPT !.transaction_date = Iso(2024, 1, 30)],
     [ABase EXCEPT !.transaction_date = RawGarbage],
     [ABase EXCEPT !.amount = 100001],
     [ABase EXCEPT !.amount = 100002],
     [ABase EXCEPT !.donor_name_normalized = PX],
     [ABase EXCEPT !.donor_name_normalized = <<"p", "a">>],
     [ABase EXCEPT !.recipient_committee_code = CC18],
     [ABase EXCEPT !.donor_name = <<" ">>],
     [ABase EXCEPT !.donor_name_normalized = <<>>,
                   !.donor_name = <<"P", "a", " ", "P", "a", "c", ".">>]}

\* a candidate with three committee codes
CmTriple == <<Committee(CC18, JA, JO), Committee(CC22, JC, JO), Committee(CC99, JX, JO)>>

\* a candidate with a two-word name and two committee codes
J_O == <<"J", " ", "O">>

CmPair == <<Committee(CC18, JA, J_O), Committee(CC22, JC, J_O)>>

\* disbursements to the two committees of that candidate
DPairRows ==
    {[DBase EXCEPT !.recipient_name_normalized = JC, !.report_year = 2021],
     [DBase EXCEPT !.recipient_name_normalized = JA, !.report_year = 2018]}

\* a receipt of the later committee that matches neither disbursement, with
\* and without the candidate name
APairLists ==
    {<<>>,
     <<[ABase EXCEPT !.amount = 100002, !.recipient_candidate_name = J_O]>>,
     <<[ABase EXCEPT !.amount = 100002]>>}

\* receipts of the three committees of one candidate
ASiblingRows ==
    {[ABase EXCEPT !.recipient_committee_code = CC18, !.amount = 100002],
     [ABase EXCEPT !.recipient_committee_code = CC18],
     [ABase EXCEPT !.recipient_committee_code = CC99],
     [ABase EXCEPT !.recipient_committee_code = CC99, !.donor_name_normalized = PX],
     [ABase EXCEPT !.amount = 100002]}

AFixedLists ==
    {<<>>, <<ABase>>, <<[ABase EXCEPT !.recipient_committee_code = CC18]>>,
     <<[ABase EXCEPT !.transaction_date = RawGarbage]>>}

InitResolve ==
    /\ \/ /\ rs_cm_table \in CmTables
          /\ rs_nv_table \in NvTables
          /\ schedule_d_df \in [1..1 -> DResolveRows]
          /\ schedule_a_df = <<>>
          /\ batch_size = 1
       \/ /\ rs_cm_table = CmMain
          /\ rs_nv_table = NvMain
          /\ schedule_d_df \in [1..1 -> DMatchRows]
          /\ schedule_a_df \in UNION {[1..n -> ARows] : n \in 0..MaxReceipts}
          /\ batch_size = 1
       \/ /\ rs_cm_table = CmMain
          /\ rs_nv_table = NvMain
          /\ schedule_d_df \in UNION {[1..n -> DRows] : n \in 0..MaxDisbursements}
          /\ schedule_a_df \in AFixedLists
          /\ batch_size \in 1..MaxDisbursements
       \/ /\ rs_cm_table = CmTriple
          /\ rs_nv_table = <<>>
          /\ schedule_d_df = <<DBase>>
          /\ schedule_a_df \in UNION {[1..n -> ASiblingRows] : n \in 0..MaxReceipts}
          /\ batch_size = 1
       \/ /\ rs_cm_table = CmPair
          /\ rs_nv_table = <<>>
          /\ schedule_d_df \in UNION {[1..n -> DPairRows] : n \in 0..MaxDisbursements}
          /\ schedule_a_df \in APairLists
          /\ batch_size \in 1..MaxDisbursements
    /\ name_variations = <<>> /\ committee_mappings = <<>> /\ normalized_to_committee = <<>>
    /\ batch_idx = 0 /\ unmatched_contributions = <<>> /\ rs_trace = <<>> /\ rs_pc = "start"
    /\ ot_tx = RawNone /\ ot_rep = RawNone /\ ot_cycle = CycleNone /\ ot_year = YearNone
    /\ ot_status = "idle" /\ ot_column = "idle"
    /\ mp_file = "idle"
    /\ mp_rows = <<>> /\ mp_reports = {} /\ mp_pos = 0 /\ mp_transactions = <<>>
    /\ logged_missing_reports = {} /\ mp_warnings = <<>>
    /\ fl_config = "idle" /\ fl_files = <<>> /\ fl_pos = 0 /\ fl_all_data = <<>>
    /\ fl_skipped = <<>> /\ fl_status = "idle"
    /\ of_office_sought = "idle" /\ of_district = "idle" /\ of_candidate_city = "idle"
    /\ of_office_normal = "idle" /\ of_level = "idle" /\ of_district_normal = "idle"
    /\ of_pc = "idle"
    /\ am_df = <<>> /\ am_threshold = 0 /\ am_latest = {} /\ am_out = {} /\ am_pc = "idle"
    /\ dd_records = <<>> /\ final_records = <<>> /\ exact_duplicates_found = <<>>
    /\ near_duplicates_found = <<>> /\ dd_pc = "idle"
    /\ nm_name = <<>> /\ nm_mode = "none" /\ nm_once = <<>> /\ nm_twice = <<>>
    /\ nm_pc = "idle"

\* the outcome of row i under the loaded tables
OutcomeOf(i) ==
    RowOutcome(schedule_d_df[i], schedule_a_df, name_variations, committee_mappings,
               normalized_to_committee)

\* find_matching_schedule_a_batch raises on a resolved row of the batch whose
\* transaction_date is a text that is no date
BatchRaises(rows) ==
    \E i \in rows : /\ OutcomeOf(i).matched_committee # NoCommittee
                    /\ PdRaises(schedule_d_df[i].transaction_date)

\* all_schedule_a for row i when the batches hold size rows each
AllScheduleA(i, size) ==
    FirstSubsetOfBatch(BatchRows(Len(schedule_d_df), size, (i - 1) \div size), schedule_d_df,
                       schedule_a_df, name_variations, committee_mappings,
                       normalized_to_committee)

RECURSIVE AppendReported(_, _, _)
\* the unmatched list after rows i..last of a batch
AppendReported(i, last, acc) ==
    IF i > last THEN acc
    ELSE AppendReported(i + 1, last,
            IF OutcomeOf(i).reported
            THEN Append(acc, ContributionRecord(i, schedule_d_df[i], OutcomeOf(i),
                            AllScheduleA(i, batch_size)))
            ELSE acc)

\* "No Schedule D political contributions found": return []
RS_NoScheduleD ==
    /\ rs_pc = "start"
    /\ schedule_d_df = <<>>
    /\ rs_pc' = "done"
    /\ UNCHANGED <<rs_cm_table, rs_nv_table, name_variations, committee_mappings,
                   normalized_to_committee, schedule_a_df, schedule_d_df, batch_size,
                   batch_idx, unmatched_contributions, rs_trace>>
    /\ UNCHANGED <<otVars, mpVars, amVars, ddVars, nmVars, flVars, ofVars>>

\* matcher.load_lookup_tables(...)
RS_LoadLookupTables ==
    /\ rs_pc = "start"
    /\ schedule_d_df # <<>>
    /\ ~LoadRaises(rs_cm_table)
    /\ name_variations' = LoadVariations(rs_nv_table, 1, <<>>)
    /\ committee_mappings' = LoadMappings(rs_cm_table, 1, <<>>)
    /\ normalized_to_committee' = LoadReverse(rs_cm_table, 1, <<>>)
    /\ rs_pc' = "batches"
    /\ UNCHANGED <<rs_cm_table, rs_nv_table, schedule_a_df, schedule_d_df, batch_size,
                   batch_idx, unmatched_contributions, rs_trace>>
    /\ UNCHANGED <<otVars, mpVars, amVars, ddVars, nmVars, flVars, ofVars>>

\* load_lookup_tables raises at the first row with a NULL candidate name; the
\* outer except returns []
RS_LoadFails ==
    /\ rs_pc = "start"
    /\ schedule_d_df # <<>>
    /\ LoadRaises(rs_cm_table)
    /\ LET k == CHOOSE n \in DOMAIN rs_cm_table :
                    /\ rs_cm_table[n].candidate_name_normalized = NoName
                    /\ \A m \in 1..(n - 1) : rs_cm_table[m].candidate_name_normalized # NoName
           before == LoadReverse(SubSeq(rs_cm_table, 1, k - 1), 1, <<>>)
       IN /\ name_variations' = LoadVariations(rs_nv_table, 1, <<>>)
          /\ committee_mappings' = LoadMappings(SubSeq(rs_cm_table, 1, k), 1, <<>>)
          /\ normalized_to_committee' =
                IF rs_cm_table[k].committee_name_normalized \notin {NoName, <<>>}
                THEN DictPut(before, StrLower(rs_cm_table[k].committee_name_normalized),
                             rs_cm_table[k])
                ELSE before
    /\ rs_pc' = "failed"
    /\ UNCHANGED <<rs_cm_table, rs_nv_table, schedule_a_df, schedule_d_df, batch_size,
                   batch_idx, unmatched_contributions, rs_trace>>
    /\ UNCHANGED <<otVars, mpVars, amVars, ddVars, nmVars, flVars, ofVars>>

\* one iteration of the batch loop
RS_ProcessBatch ==
    /\ rs_pc = "batches"
    /\ batch_idx < TotalBatches(Len(schedule_d_df), batch_size)
    /\ LET rows == BatchRows(Len(schedule_d_df), batch_size, batch_idx)
           first == batch_idx * batch_size + 1
           last == CHOOSE i \in rows : \A j \in rows : j <= i
       IN /\ ~BatchRaises(rows)
          /\ unmatched_contributions' = AppendReported(first, last, unmatched_contributions)
          /\ rs_trace' = [i \in 1..last |->
                             IF i <= Len(rs_trace) THEN rs_trace[i] ELSE OutcomeOf(i)]
    /\ batch_idx' = batch_idx + 1
    /\ UNCHANGED <<rs_cm_table, rs_nv_table, name_variations, committee_mappings,
                   normalized_to_committee, schedule_a_df, schedule_d_df, batch_size, rs_pc>>
    /\ UNCHANGED <<otVars, mpVars, amVars, ddVars, nmVars, flVars, ofVars>>

\* an iteration of the batch loop raises; the outer except returns []
RS_BatchFails ==
    /\ rs_pc = "batches"
    /\ batch_idx < TotalBatches(Len(schedule_d_df), batch_size)
    /\ BatchRaises(BatchRows(Len(schedule_d_df), batch_size, batch_idx))
    /\ unmatched_contributions' = <<>>
    /\ rs_pc' = "failed"
    /\ UNCHANGED <<rs_cm_table, rs_nv_table, name_variations, committee_mappings,
                   normalized_to_committee, schedule_a_df, schedule_d_df, batch_size,
                   batch_idx, rs_trace>>
    /\ UNCHANGED <<otVars, mpVars, amVars, ddVars, nmVars, flVars, ofVars>>

\* return unmatched_contributions
RS_Return ==
    /\ rs_pc = "batches"
    /\ batch_idx = TotalBatches(Len(schedule_d_df), batch_size)
    /\ rs_pc' = "done"
    /\ UNCHANGED <<rs_cm_table, rs_nv_table, name_variations, committee_mappings,
                   normalized_to_committee, schedule_a_df, schedule_d_df, batch_size,
                   batch_idx, unmatched_contributions, rs_trace>>
    /\ UNCHANGED <<otVars, mpVars, amVars, ddVars, nmVars, flVars, ofVars>>

NextResolve ==
    \/ RS_NoScheduleD
    \/ RS_LoadLookupTables
    \/ RS_LoadFails
    \/ RS_ProcessBatch
    \/ RS_BatchFails
    \/ RS_Return

SpecResolve == InitResolve /\ [][NextResolve]_vars

-----------------------------------------------------------------------------
(* Properties of the resolver                                               *)

\* the year a CC-YY- code stands for: YY < 50 is 20YY, otherwise 19YY
EncodedYear(code) ==
    LET yy == 10 * DigitVal(code[4]) + DigitVal(code[5])
    IN IF yy < 50 THEN 2000 + yy ELSE 1900 + yy

\* C6: when the candidate of the looked-up committee owns more than one
\* committee code, the resolver returns the committee with a CC-YY- code whose
\* encoded year is nearest to filing_year, the first encountered among equally
\* near ones; a code that does not match the pattern never wins; when no code
\* matches, the looked-up committee itself is returned
C6_YearProximityTieBreak ==
    \A i \in DOMAIN rs_trace :
        LET t == rs_trace[i]
            all == AllCandidateCommittees(committee_mappings,
                                          t.lookup.candidate_name_normalized)
            M == {k \in DOMAIN all : MatchesCodePattern(all[k].committee_code)}
        IN (t.lookup # NoCommittee /\ Len(all) > 1) =>
              IF M = {} THEN t.matched_committee = t.lookup
              ELSE \E k \in M :
                      /\ t.matched_committee = all[k]
                      /\ \A j \in M :
                            Abs(t.filing_year - EncodedYear(all[k].committee_code))
                               <= Abs(t.filing_year - EncodedYear(all[j].committee_code))
                      /\ \A j \in M :
                            j < k =>
                               Abs(t.filing_year - EncodedYear(all[k].committee_code))
                                  < Abs(t.filing_year - EncodedYear(all[j].committee_code))

\* the recipient's committee CC-18 is looked up for filing year 2021 and the
\* candidate's other committee CC-22 is returned
C6_Witness ==
    \E i \in DOMAIN rs_trace :
        /\ rs_trace[i].lookup.committee_code = CC18
        /\ rs_trace[i].filing_year = 2021
        /\ rs_trace[i].matched_committee.committee_code = CC22
        /\ Len(AllCandidateCommittees(committee_mappings, JO)) > 1

\* the compared donor names are equal, ignoring case
NamesEqual(d_row, a_row) ==
    StrLower(DonorNormalized(d_row)) = StrLower(ReceiptDonorNormalized(a_row))

\* both dates parse and the receipt date minus the disbursement date lies
\* between -30 and +60 days
WindowConfirmed(d_row, a_row) ==
    /\ PdToDatetime(a_row.transaction_date) # NoDate
    /\ PdToDatetime(d_row.transaction_date) # NoDate
    /\ Ordinal(PdToDatetime(a_row.transaction_date))
          - Ordinal(PdToDatetime(d_row.transaction_date)) \in -30..60

\* one of the two dates is missing or unparseable
DateUnconfirmed(d_row, a_row) ==
    \/ PdToDatetime(a_row.transaction_date) = NoDate
    \/ PdToDatetime(d_row.transaction_date) = NoDate

\* C8 as stated: a disbursement is reported as matched only if some receipt of
\* the resolved committee has an equal donor name, an amount within one cent
\* and a date confirmed to lie in the -30..+60 day window
C8_PositiveMatch_Original ==
    \A i \in DOMAIN rs_trace :
        rs_trace[i].has_match =>
            \E k \in DOMAIN schedule_a_df :
                /\ schedule_a_df[k].recipient_committee_code =
                      rs_trace[i].matched_committee.committee_code
                /\ NamesEqual(schedule_d_df[i], schedule_a_df[k])
                /\ Abs(schedule_a_df[k].amount - schedule_d_df[i].amount) <= 1
                /\ WindowConfirmed(schedule_d_df[i], schedule_a_df[k])

\* C8 amended: a disbursement is reported as matched only if some receipt of
\* the resolved committee has an equal donor name (ignoring case), an amount
\* within one cent, and a date that either lies in the -30..+60 day window or
\* cannot be compared because one of the two dates is missing or unparseable
C8_PositiveMatch ==
    \A i \in DOMAIN rs_trace :
        rs_trace[i].has_match =>
            \E k \in DOMAIN schedule_a_df :
                /\ schedule_a_df[k].recipient_committee_code =
                      rs_trace[i].matched_committee.committee_code
                /\ NamesEqual(schedule_d_df[i], schedule_a_df[k])
                /\ Abs(schedule_a_df[k].amount - schedule_d_df[i].amount) <= 1
                /\ \/ WindowConfirmed(schedule_d_df[i], schedule_a_df[k])
                   \/ DateUnconfirmed(schedule_d_df[i], schedule_a_df[k])

\* a disbursement is matched although no receipt of its committee has a date
\* confirmed to lie in the window
C8_Witness ==
    \E i \in DOMAIN rs_trace :
        /\ rs_trace[i].has_match
        /\ \A k \in DOMAIN schedule_a_df :
              schedule_a_df[k].recipient_committee_code =
                 rs_trace[i].matched_committee.committee_code
              => ~WindowConfirmed(schedule_d_df[i], schedule_a_df[k])

\* the three reason codes of the statement
StatedReasons == {"no_lookup_entry", "no_receipt_for_committee", "amount_or_date_mismatch"}

\* C9 as stated: when the run has returned, every disbursement whose
\* counter-party was not resolved, or was resolved but matched no receipt,
\* is in the output with one of the three stated failure reasons
C9_UnmatchedReasons ==
    rs_pc = "done" =>
        \A i \in DOMAIN schedule_d_df :
            (i \in DOMAIN rs_trace
             /\ (\/ rs_trace[i].matched_committee = NoCommittee
                 \/ (~rs_trace[i].has_match /\ ~rs_trace[i].found_alternate_match)))
            => \E n \in DOMAIN unmatched_contributions :
                  /\ unmatched_contributions[n].index = i
                  /\ unmatched_contributions[n].failure_reason \in StatedReasons

-----------------------------------------------------------------------------
(* Name normalizer (name_normalization.py).  A name is held as the list of  *)
(* its blank-separated words, so str.strip() and the collapsing of runs of  *)
(* blanks are implicit; NoName stands for None and <<>> for ''.             *)

\* str.upper() on a word
UpperWord(w) == CASE w = "dr" -> "DR" [] OTHER -> w

\* the one-word patterns of TITLE_PATTERNS; the optional dot of a pattern and
\* the multi-word patterns (THE HONORABLE, ATTORNEY GENERAL, LIEUT GOV, A.G)
\* need characters and words that no name of the model contains
TitleWords ==
    {"DELEGATE", "DEL", "SENATOR", "SEN", "GOVERNOR", "GOV", "AG", "MAYOR", "SHERIFF",
     "HONORABLE", "HON", "MR", "MRS", "MS", "MISS", "DR", "DOCTOR", "PROF", "PROFESSOR",
     "REV", "REVEREND", "CAPT", "CAPTAIN", "COL", "COLONEL", "MAJ", "MAJOR", "LT",
     "LIEUTENANT", "GEN", "GENERAL", "ESQ", "ESQUIRE"}

\* a word without its punctuation characters: re.sub(r'[^\w\s]', '', word)
StripPunctuation(w) == CASE w = "INC." -> "INC" [] OTHER -> w

\* TRAILING_NONWORD_PATTERN.sub('', text) acts on the last word
StripTrailingNonword(words) ==
    IF words = <<>> THEN words
    ELSE [i \in DOMAIN words |->
            IF i = Len(words) THEN StripPunctuation(words[i]) ELSE words[i]]

Suffixes == {"JR", "SR", "III", "IV", "V", "JUNIOR", "SENIOR"}

\* extract_first_last_name(name); no word of the model contains a hyphen
ExtractFirstLastName(parts) ==
    IF Len(parts) < 2 THEN parts
    ELSE LET suffix_parts == SelectSeq(parts, LAMBDA p : p \in Suffixes)
             name_parts == SelectSeq(parts, LAMBDA p : p \notin Suffixes)
         IN IF Len(name_parts) < 2 THEN parts
            ELSE <<name_parts[1], name_parts[Len(name_parts)]>> \o suffix_parts

\* ASSOCIATION_PATTERN, ASSN_PATTERN, VIRGINIA_PATTERN and HIGHWAY_PATTERN on a
\* word (PAC_PATTERN needs the three words POLITICAL ACTION COMMITTEE)
GeneralWord(w) ==
    CASE w = "ASSOCIATION" -> "ASSOC" [] w = "ASSN" -> "ASSOC"
      [] w = "VIRGINIA" -> "VA" [] w = "HIGHWAY" -> "HWY" [] OTHER -> w

\* re.sub(r'\b<word>$', '', text).strip(): a last word equal to it is removed
RemoveEnding(words, word) ==
    IF words # <<>> /\ words[Len(words)] = word THEN SubSeq(words, 1, Len(words) - 1)
    ELSE words

EXACT_DOMINION_MATCHES ==
    {<<"DOMINION">>,
     <<"DOMINION", "PAC">>,
     <<"DOMINION", "ENERGY", "PAC">>,
     <<"DOMINION", "POLITICAL", "ACTION", "COMMITTEE">>,
     <<"DOMINION", "POLITICAL", "ACTION", "COMMITTEE", "-", "VA">>,
     <<"DOMINION", "POLITICAL", "ACTION", "COMMITTEE-", "VA", "LAST", "NAME", "LEFT", "BLANK">>,
     <<"DOMINION", "EMPLOYEES", "PAC">>,
     <<"DOMINION", "VA", "POWER">>,
     <<"DOMINION", "VA.", "POWER">>,
     <<"DOMINION", "ENERGY", "INC.", "PAC">>,
     <<"DOMINION", "ENERGY", "INC", "PAC", "-", "VA">>,
     <<"DOMINION", "ENERGY", "INC.", "PAC", "-", "VA">>,
     <<"DOMINION", "ENERGY", "INC.", "PAC", "-", "VIRGINIA">>,
     <<"DOMINION", "ENERGY", "INC", "PAC", "-", "VIRGINIA">>,
     <<"DOMINION", "PAC", "-", "VA">>,
     <<"DOMINION", "POWER">>,
     <<"DOMINION", "PAC", "VA">>,
     <<"DOMINION", "POLITICAL", "ACTION", "COMMITTE", "-", "VA">>,
     <<"DOMINION", "PAC-VA">>,
     <<"DOMINION", "POWER", "PAC">>,
     <<"DOMINION", "POLITICAL", "ACTION", "COMITTEE">>,
     <<"DOMINION", "PAC", "OF", "VA">>,
     <<"DOMINION", "POLITICAL", "ACCTION", "COMMITEE">>,
     <<"DOMINION-PAC-VA">>,
     <<"DOMINION", "ENERGY,", "INC.">>,
     <<"DOMINION", "ENERGY", "INC.">>,
     <<"DOMINION", "ENERGY", "INC">>,
     <<"DOMINION", "RESOURCES", "INC.", "PAC", "-", "VA">>,
     <<"DOMINION", "RESOURCES">>,
     <<"DOMINIONENERGY">>,
     <<"DOMINION", "ENGERGY">>}

EXACT_CLEAN_VA_MATCHES ==
    {<<"CLEAN", "VA", "FUND">>,
     <<"CLEAN", "VA">>,
     <<"CLEAN", "VA", "ACTION", "FUND">>,
     <<"CLEAN", "VA", "PAC">>,
     <<"CLEAN", "VA", "FUND", "PAC">>,
     <<"CLEAN", "VA", "FUND", "(PAC)">>}

\* the Dominion / Clean Virginia canonicalisation at the end of normalize_name
CanonicalBrand(words) ==
    IF words \in EXACT_DOMINION_MATCHES THEN <<"DOMINION", "ENERGY">>
    ELSE IF Len(words) > 2 /\ SubSeq(words, 1, 2) = <<"DOMINION", "ENERGY">>
    THEN <<"DOMINION", "ENERGY">>
    ELSE IF words \in EXACT_CLEAN_VA_MATCHES THEN <<"CLEAN", "VA", "FUND">>
    ELSE words

\* normalize_name(name, is_individual); is_individual is "true", "false" or
\* "null"
NormalizeName(name, is_individual) ==
    IF name = NoName \/ name = <<>> THEN <<>>
    ELSE LET upper == [i \in DOMAIN name |-> UpperWord(name[i])]
             person == IF is_individual = "true"
                       THEN ExtractFirstLastName(StripTrailingNonword(
                                SelectSeq(upper, LAMBDA w : w \notin TitleWords)))
                       ELSE upper
             general == [i \in DOMAIN person |-> GeneralWord(person[i])]
             entity == IF is_individual = "false"
                       THEN RemoveEnding(RemoveEnding(
                                [i \in DOMAIN general |-> StripPunctuation(general[i])],
                                "PAC"), "INC")
                       ELSE general
         IN CanonicalBrand(entity)

(* Specification of the normalizer: normalize_name is applied to a name and *)
(* then to its own result, in the same mode.                                *)

MaxWords == 3

NameWords ==
    {"ACME", "PAC", "INC", "INC.", "dr", "JOHN", "JR", "VIRGINIA", "CLEAN", "DOMINION"}

InitName ==
    /\ nm_name \in {NoName} \cup UNION {[1..n -> NameWords] : n \in 0..MaxWords}
    /\ nm_mode \in {"true", "false", "null"}
    /\ nm_once = <<>> /\ nm_twice = <<>> /\ nm_pc = "ready"
    /\ ot_tx = RawNone /\ ot_rep = RawNone /\ ot_cycle = CycleNone /\ ot_year = YearNone
    /\ ot_status = "idle" /\ ot_column = "idle"
    /\ mp_file = "idle"
    /\ mp_rows = <<>> /\ mp_reports = {} /\ mp_pos = 0 /\ mp_transactions = <<>>
    /\ logged_missing_reports = {} /\ mp_warnings = <<>>
    /\ fl_config = "idle" /\ fl_files = <<>> /\ fl_pos = 0 /\ fl_all_data = <<>>
    /\ fl_skipped = <<>> /\ fl_status = "idle"
    /\ of_office_sought = "idle" /\ of_district = "idle" /\ of_candidate_city = "idle"
    /\ of_office_normal = "idle" /\ of_level = "idle" /\ of_district_normal = "idle"
    /\ of_pc = "idle"
    /\ am_df = <<>> /\ am_threshold = 0 /\ am_latest = {} /\ am_out = {} /\ am_pc = "idle"
    /\ dd_records = <<>> /\ final_records = <<>> /\ exact_duplicates_found = <<>>
    /\ near_duplicates_found = <<>> /\ dd_pc = "idle"
    /\ rs_cm_table = <<>> /\ rs_nv_table = <<>> /\ name_variations = <<>>
    /\ committee_mappings = <<>> /\ normalized_to_committee = <<>>
    /\ schedule_a_df = <<>> /\ schedule_d_df = <<>> /\ batch_size = 0 /\ batch_idx = 0
    /\ unmatched_contributions = <<>> /\ rs_trace = <<>> /\ rs_pc = "idle"

\* normalize_name(name, mode)
NM_Normalize ==
    /\ nm_pc = "ready"
    /\ nm_once' = NormalizeName(nm_name, nm_mode)
    /\ nm_pc' = "once"
    /\ UNCHANGED <<nm_name, nm_mode, nm_twice>>
    /\ UNCHANGED <<otVars, mpVars, amVars, ddVars, rsVars, flVars, ofVars>>

\* normalize_name(normalize_name(name, mode), mode)
NM_NormalizeAgain ==
    /\ nm_pc = "once"
    /\ nm_twice' = NormalizeName(nm_once, nm_mode)
    /\ nm_pc' = "twice"
    /\ UNCHANGED <<nm_name, nm_mode, nm_once>>
    /\ UNCHANGED <<otVars, mpVars, amVars, ddVars, rsVars, flVars, ofVars>>

NextName == NM_Normalize \/ NM_NormalizeAgain

SpecName == InitName /\ [][NextName]_vars

-----------------------------------------------------------------------------
(* Properties of the normalizer                                             *)

\* C7: normalize_name is idempotent in every mode: normalizing the result of
\* normalize_name again, in the same mode, returns it unchanged
C7_NormalizeIdempotent == nm_pc = "twice" => nm_twice = nm_once

-----------------------------------------------------------------------------
(* Row mappers of the schedule processor (ScheduleABCDFI_processor.py)      *)

\* A row is a function from the column names of its file to cells, as
\* read_csv(...).fillna("").replace("nan", "") leaves them: an amount cell is
\* its text (a sequence of characters, in whole dollars), a date cell a raw
\* date value, a year cell a raw year value.

\* a ReportId cell: blank or an integer (0 is an integer Python treats as false)
IdBlank == [blank |-> TRUE, v |-> 0]

Id(n) == [blank |-> FALSE, v |-> n]

IdTruthy(id) == ~id.blank /\ id.v # 0

\* row.get(column) with None for a column the file does not have
RowGet(row, column, none) == IF column \in DOMAIN row THEN row[column] ELSE none

\* a or b on raw date cells
DateOr(a, b) == IF Truthy(a) THEN a ELSE b

\* a or b on raw year cells
YearOr(a, b) == IF YearTruthy(a) THEN a ELSE b

\* the str.replace chain of the amount cleaning, one character at a time
RemoveChars(s, drop) == LET Keep(c) == c \notin drop IN SelectSeq(s, Keep)

\* cleaned_amount: '$', ',' and ')' removed and '(' turned into '-'; a text in
\* parentheses becomes '-' followed by its inside without '$' and ','
CleanAmount(raw_amount) ==
    IF Head(raw_amount) = "(" /\ raw_amount[Len(raw_amount)] = ")"
    THEN <<"-">> \o RemoveChars(SubSeq(raw_amount, 2, Len(raw_amount) - 1), {"$", ","})
    ELSE LET kept == RemoveChars(raw_amount, {"$", ",", ")"})
         IN  [i \in DOMAIN kept |-> IF kept[i] = "(" THEN "-" ELSE kept[i]]

RECURSIVE DecimalValue(_)
DecimalValue(digits) ==
    IF digits = <<>> THEN 0
    ELSE 10 * DecimalValue(SubSeq(digits, 1, Len(digits) - 1)) + DigitVal(digits[Len(digits)])

\* float(text) on texts without decimal point, exponent or '+': surrounding
\* blanks are ignored, then an optional '-' and at least one digit; anything
\* else raises ValueError
PyFloat(text) ==
    LET t == StrStrip(text)
        negative == t # <<>> /\ Head(t) = "-"
        digits == IF negative THEN Tail(t) ELSE t
    IN  IF digits # <<>> /\ \A i \in DOMAIN digits : digits[i] \in Digits
        THEN [ok |-> TRUE, v |-> IF negative THEN 0 - DecimalValue(digits) ELSE DecimalValue(digits)]
        ELSE [ok |-> FALSE, v |-> 0]

\* the amount block applied to one cell: "blank" (nothing to parse), "ok"
\* with the value, or "failed" (ValueError, a warning is logged)
ParseAmount(amount_value) ==
    LET raw_amount == StrStrip(amount_value)
    IN  IF raw_amount = <<>> THEN [status |-> "blank", v |-> 0]
        ELSE LET parsed == PyFloat(CleanAmount(raw_amount))
             IN  IF parsed.ok THEN [status |-> "ok", v |-> parsed.v]
                 ELSE [status |-> "failed", v |-> 0]

Warning(kind, field, id) == [kind |-> kind, field |-> field, ReportId |-> id]

\* amount of the new format: row.get('Amount', 0), 0.0 when blank or not a number
NewAmount(row) == ParseAmount(RowGet(row, "Amount", <<"0">>)).v

amount_fields == <<"Trans Amount", "TRANS_AMNT", "Trans_Amount">>

RECURSIVE OldAmountLoop(_, _)
\* for field in amount_fields: the first column that parses decides (break),
\* a column that fails to parse is passed over (continue); 0.0 otherwise
OldAmountLoop(row, i) ==
    IF i > Len(amount_fields) THEN 0
    ELSE IF amount_fields[i] \in DOMAIN row /\ ParseAmount(row[amount_fields[i]]).status = "ok"
    THEN ParseAmount(row[amount_fields[i]]).v
    ELSE OldAmountLoop(row, i + 1)

RECURSIVE OldAmountWarnings(_, _)
\* the parse warnings of the loop, in order
OldAmountWarnings(row, i) ==
    IF i > Len(amount_fields) THEN <<>>
    ELSE IF amount_fields[i] \notin DOMAIN row THEN OldAmountWarnings(row, i + 1)
    ELSE IF ParseAmount(row[amount_fields[i]]).status = "ok" THEN <<>>
    ELSE IF ParseAmount(row[amount_fields[i]]).status = "failed"
    THEN <<Warning("amount", amount_fields[i], IdBlank)>> \o OldAmountWarnings(row, i + 1)
    ELSE OldAmountWarnings(row, i + 1)

\* reports.get(row.get('ReportId'), {}): the Report.csv entry or the empty dict,
\* whose every .get() is None
ReportInfo(reports, report_id) ==
    IF \E r \in reports : r.ReportId = report_id
    THEN LET r == CHOOSE r \in reports : r.ReportId = report_id
         IN  [found |-> TRUE, filing_date |-> r.filing_date,
              election_cycle |-> r.election_cycle, report_year |-> r.report_year]
    ELSE [found |-> FALSE, filing_date |-> RawNone,
          election_cycle |-> CycleNone, report_year |-> YearNone]

\* a missing-report test that forgets which ids were already warned about
MissingReport_EveryRow(row, reports, logged) ==
    LET report_id == RowGet(row, "ReportId", IdBlank)
    IN  ~ReportInfo(reports, report_id).found /\ IdTruthy(report_id)

\* the missing-report test of lines 794-795
MissingReport(row, reports, logged) ==
    LET report_id == RowGet(row, "ReportId", IdBlank)
    IN  ~ReportInfo(reports, report_id).found /\ IdTruthy(report_id) /\ report_id \notin logged

\* the warnings one call of _map_new_row_to_transaction logs, in order
NewRowWarnings(row, reports, logged) ==
    (IF ParseAmount(RowGet(row, "Amount", <<"0">>)).status = "failed"
     THEN <<Warning("amount", "Amount", RowGet(row, "ReportId", IdBlank))>> ELSE <<>>)
    \o (IF MissingReport(row, reports, logged)
        THEN <<Warning("missing_report", "ReportId", RowGet(row, "ReportId", IdBlank))>>
        ELSE <<>>)

\* mutant: a row whose amount does not parse is dropped
MapNewRowToTransaction_DropBadAmount(row, folder_name, schedule_type, reports) ==
    LET report_info == ReportInfo(reports, RowGet(row, "ReportId", IdBlank))
    IN  IF ParseAmount(RowGet(row, "Amount", <<"0">>)).status = "failed" THEN <<>>
        ELSE << [report_date |-> report_info.filing_date,
                 schedule_type |-> schedule_type,
                 transaction_date |-> RowGet(row, "TransactionDate", RawNone),
                 amount |-> NewAmount(row),
                 data_source |-> "new",
                 folder_name |-> folder_name,
                 onTime |-> DetermineOnTimeStatus(RowGet(row, "TransactionDate", RawNone),
                                report_info.filing_date, report_info.election_cycle,
                                report_info.report_year)] >>

\* _map_new_row_to_transaction: the returned dict as a one-element sequence
\* (the empty sequence would stand for None).  Of the dict, the fields the
\* row parse decides are kept; the others are cells copied from the row or
\* the report.
MapNewRowToTransaction(row, folder_name, schedule_type, reports) ==
    LET report_info == ReportInfo(reports, RowGet(row, "ReportId", IdBlank))
    IN  << [report_date |-> report_info.filing_date,
            schedule_type |-> schedule_type,
            transaction_date |-> RowGet(row, "TransactionDate", RawNone),
            amount |-> NewAmount(row),
            data_source |-> "new",
            folder_name |-> folder_name,
            onTime |-> DetermineOnTimeStatus(RowGet(row, "TransactionDate", RawNone),
                           report_info.filing_date, report_info.election_cycle,
                           report_info.report_year)] >>

\* int(folder_name) of an old folder, which is_old_folder names YYYY
FolderYear(folder_name) ==
    IF folder_name = "2010" THEN YearStr(2010)
    ELSE IF folder_name = "2011" THEN YearStr(2011)
    ELSE YearBad

\* _map_old_row_to_transaction
MapOldRowToTransaction(row, folder_name, schedule_type) ==
    LET trans_date == DateOr(RowGet(row, "Trans Date", RawNone), RowGet(row, "TRANS_DATE", RawNone))
        date_received == DateOr(RowGet(row, "Date Received", RawNone),
                                RowGet(row, "DATE_RECEIVED", RawNone))
        report_year == YearOr(YearOr(RowGet(row, "Report Year", YearNone),
                                     RowGet(row, "REPORT_YEAR", YearNone)),
                              FolderYear(folder_name))
    IN  << [report_date |-> date_received,
            schedule_type |-> schedule_type,
            transaction_date |-> trans_date,
            amount |-> OldAmountLoop(row, 1),
            data_source |-> "old",
            folder_name |-> folder_name,
            onTime |-> DetermineOnTimeStatus(trans_date, date_received, CycleNone, report_year)] >>

transactional_schedules ==
    {"ScheduleA", "ScheduleB", "ScheduleC", "ScheduleD", "ScheduleF", "ScheduleI"}

skip_schedules == {"ScheduleG", "ScheduleH", "ScheduleE"}

-----------------------------------------------------------------------------
(* Specification of the row mappers: one schedule file read row by row      *)

MaxMapRows == 2

SeqsUpTo(S, n) == UNION {[1..k -> S] : k \in 0..n}

\* amount texts: plain, padded, formatted, negative in either notation, and
\* texts float() rejects
AmountTexts ==
    { <<>>, <<"1", "5">>, <<" ", "5", " ">>, <<"$", "1", ",", "5">>,
      <<"(", "$", "5", ")">>, <<"(", "5">>, <<"x">>, <<"5", "x">>,
      <<"(", "-", "5", ")">>, <<"$">> }

NewRow(amount, transaction_date, report_id) ==
    ("Amount" :> amount) @@ ("TransactionDate" :> transaction_date) @@ ("ReportId" :> report_id)

\* ReportId 101 and 102 are in Report.csv, 103 is not
NewRows ==
    {NewRow(a, Iso(2024, 3, 1), Id(101)) : a \in AmountTexts}
    \cup {NewRow(<<"x">>, RawGarbage, Id(102)), NewRow(<<"x">>, RawGarbage, Id(103)),
          NewRow(<<"x">>, RawEmpty, IdBlank), NewRow(<<"x">>, Iso(2024, 3, 1), Id(103)),
          NewRow(<<"1", "5">>, RawGarbage, Id(101)),
          NewRow(<<"1", "5">>, Iso(2023, 12, 31), Id(101)),
          NewRow(<<"1", "5">>, Iso(2024, 3, 1), Id(103)),
          NewRow(<<"1", "5">>, Iso(2024, 3, 1), Id(0)),
          ("TransactionDate" :> Iso(2024, 3, 1)) @@ ("ReportId" :> Id(101))}

Report(report_id, filing_date, election_cycle, report_year) ==
    [ReportId |-> report_id, filing_date |-> filing_date,
     election_cycle |-> election_cycle, report_year |-> report_year]

\* the reports dict built from Report.csv: two entries of which the second
\* has an unreadable filing date and year
ReportTable ==
    {Report(Id(101), Iso(2024, 4, 15), CycleSlash(TRUE, 2024), YearInt(2024)),
     Report(Id(102), RawGarbage, CycleEmpty, YearNaN)}

OldDates(trans_date, date_received, report_year) ==
    ("Trans Date" :> trans_date) @@ ("Date Received" :> date_received)
    @@ ("Report Year" :> report_year)

OldGoodDates ==
    OldDates(RawStr("%m/%d/%Y", 2010, 3, 1), RawStr("%m/%d/%Y", 2010, 7, 15), YearStr(2010))

OldRows ==
    {("Trans Amount" :> a) @@ OldGoodDates : a \in AmountTexts}
    \cup {("Trans Amount" :> <<"x">>) @@ dates :
             dates \in {OldDates(RawGarbage, RawStr("%m/%d/%Y", 2010, 7, 15), YearStr(2010)),
                        OldDates(RawEmpty, RawEmpty, YearEmpty),
                        OldDates(RawStr("%m/%d/%Y", 2010, 3, 1),
                                 RawStr("%m/%d/%Y", 2010, 7, 16), YearEmpty)}}
    \cup {("TRANS_AMNT" :> <<"1", "5">>) @@ OldGoodDates,
          ("Trans Amount" :> <<"x">>) @@ ("TRANS_AMNT" :> <<"1", "5">>) @@ OldGoodDates,
          ("Trans Amount" :> <<"x">>) @@ ("Trans_Amount" :> <<"5", "x">>) @@ OldGoodDates,
          ("Trans Amount" :> <<>>) @@ ("Trans_Amount" :> <<"(", "5", ")">>) @@ OldGoodDates,
          OldGoodDates,
          ("Trans Amount" :> <<"x">>) @@ ("TRANS_DATE" :> RawGarbage)
              @@ ("DATE_RECEIVED" :> RawStr("%m/%d/%Y", 2010, 7, 15))
              @@ ("REPORT_YEAR" :> YearStr(2010))}

File(format, folder_name, schedule_type) ==
    [format |-> format, folder_name |-> folder_name, schedule_type |-> schedule_type,
     state |-> "open"]

\* a file of a transactional schedule with up to MaxMapRows rows, in either
\* format (the new format with Report.csv, or with one row and without it),
\* or a one-row file of a schedule that is not mapped
MapInputs ==
    {[file |-> File("new", "2024_01", "ScheduleA"), rows |-> rows, reports |-> ReportTable] :
        rows \in SeqsUpTo(NewRows, MaxMapRows)}
    \cup {[file |-> File("new", "2024_01", "ScheduleB"), rows |-> <<row>>, reports |-> {}] :
        row \in NewRows}
    \cup {[file |-> File("old", "2010", "ScheduleD"), rows |-> rows, reports |-> {}] :
        rows \in SeqsUpTo(OldRows, MaxMapRows)}
    \cup {[file |-> File(format, "2011", schedule_type),
           rows |-> <<OldGoodDates>>, reports |-> {}] :
        format \in {"new", "old"}, schedule_type \in {"ScheduleG", "ScheduleZ"}}

InitMap ==
    /\ \E input \in MapInputs :
          mp_file = input.file /\ mp_rows = input.rows /\ mp_reports = input.reports
    /\ mp_pos = 0 /\ mp_transactions = <<>>
    /\ logged_missing_reports = {} /\ mp_warnings = <<>>
    /\ fl_config = "idle" /\ fl_files = <<>> /\ fl_pos = 0 /\ fl_all_data = <<>>
    /\ fl_skipped = <<>> /\ fl_status = "idle"
    /\ of_office_sought = "idle" /\ of_district = "idle" /\ of_candidate_city = "idle"
    /\ of_office_normal = "idle" /\ of_level = "idle" /\ of_district_normal = "idle"
    /\ of_pc = "idle"
    /\ ot_tx = RawNone /\ ot_rep = RawNone /\ ot_cycle = CycleNone /\ ot_year = YearNone
    /\ ot_status = "idle" /\ ot_column = "idle"
    /\ am_df = <<>> /\ am_threshold = 0 /\ am_latest = {} /\ am_out = {} /\ am_pc = "idle"
    /\ dd_records = <<>> /\ final_records = <<>> /\ exact_duplicates_found = <<>>
    /\ near_duplicates_found = <<>> /\ dd_pc = "idle"
    /\ nm_name = <<>> /\ nm_mode = "none" /\ nm_once = <<>> /\ nm_twice = <<>> /\ nm_pc = "idle"
    /\ rs_cm_table = <<>> /\ rs_nv_table = <<>> /\ name_variations = <<>>
    /\ committee_mappings = <<>> /\ normalized_to_committee = <<>>
    /\ schedule_a_df = <<>> /\ schedule_d_df = <<>> /\ batch_size = 0 /\ batch_idx = 0
    /\ unmatched_contributions = <<>> /\ rs_trace = <<>> /\ rs_pc = "idle"

\* a file whose schedule is in skip_schedules or unknown is passed over
MP_SkipFile ==
    /\ mp_file.state = "open"
    /\ mp_file.schedule_type \notin transactional_schedules
    /\ mp_file' = [mp_file EXCEPT !.state = "skipped"]
    /\ UNCHANGED <<mp_rows, mp_reports, mp_pos, mp_transactions, logged_missing_reports,
                   mp_warnings>>
    /\ UNCHANGED <<otVars, amVars, ddVars, nmVars, rsVars, flVars, ofVars>>

\* one turn of the row loop of _process_new_folder / _process_new_folder_gcs:
\* map the row, append the transaction if it is truthy
MP_ProcessNewRow ==
    /\ mp_file.state = "open" /\ mp_file.format = "new"
    /\ mp_file.schedule_type \in transactional_schedules
    /\ mp_pos < Len(mp_rows)
    /\ LET row == mp_rows[mp_pos + 1]
           transaction == MapNewRowToTransaction(row, mp_file.folder_name,
                                                 mp_file.schedule_type, mp_reports)
       IN  /\ mp_transactions' = mp_transactions \o transaction
           /\ mp_warnings' = mp_warnings \o NewRowWarnings(row, mp_reports, logged_missing_reports)
           /\ logged_missing_reports' =
                 IF MissingReport(row, mp_reports, logged_missing_reports)
                 THEN logged_missing_reports \cup {RowGet(row, "ReportId", IdBlank)}
                 ELSE logged_missing_reports
    /\ mp_pos' = mp_pos + 1
    /\ UNCHANGED <<mp_file, mp_rows, mp_reports>>
    /\ UNCHANGED <<otVars, amVars, ddVars, nmVars, rsVars, flVars, ofVars>>

\* one turn of the row loop of _process_old_folder_gcs
MP_ProcessOldRow ==
    /\ mp_file.state = "open" /\ mp_file.format = "old"
    /\ mp_file.schedule_type \in transactional_schedules
    /\ mp_pos < Len(mp_rows)
    /\ LET row == mp_rows[mp_pos + 1]
           transaction == MapOldRowToTransaction(row, mp_file.folder_name,
                                                 mp_file.schedule_type)
       IN  /\ mp_transactions' = mp_transactions \o transaction
           /\ mp_warnings' = mp_warnings \o OldAmountWarnings(row, 1)
    /\ mp_pos' = mp_pos + 1
    /\ UNCHANGED <<mp_file, mp_rows, mp_reports, logged_missing_reports>>
    /\ UNCHANGED <<otVars, amVars, ddVars, nmVars, rsVars, flVars, ofVars>>

NextMap == MP_SkipFile \/ MP_ProcessNewRow \/ MP_ProcessOldRow

SpecMap == InitMap /\ [][NextMap]_vars

-----------------------------------------------------------------------------
(* Properties of the row mappers                                            *)

\* a text that is no number: a character that is neither a digit nor amount
\* formatting, or no digit at all
NonNumeric(text) ==
    \/ \E i \in DOMAIN text : text[i] \notin Digits \cup {"$", ",", "(", ")", "-", " "}
    \/ \A i \in DOMAIN text : text[i] \notin Digits

AmountColumns == {"Amount", "Trans Amount", "TRANS_AMNT", "Trans_Amount"}

\* C10: parse failures never drop a record: in a file of a transactional
\* schedule every row read so far has produced exactly one transaction, in
\* row order (so the number of mapped records equals the number of rows
\* read), in the new and in the old format; a row none of whose amount cells
\* is a number has amount 0.0, and a row whose transaction date or report
\* date is missing or unparseable has onTime null
C10_ParseFailuresKeepRecord ==
    mp_file.schedule_type \in transactional_schedules =>
        /\ Len(mp_transactions) = mp_pos
        /\ \A i \in 1..mp_pos :
              /\ mp_transactions[i].data_source = mp_file.format
              /\ mp_transactions[i].transaction_date =
                    IF mp_file.format = "new"
                    THEN RowGet(mp_rows[i], "TransactionDate", RawNone)
                    ELSE DateOr(RowGet(mp_rows[i], "Trans Date", RawNone),
                                RowGet(mp_rows[i], "TRANS_DATE", RawNone))
              /\ (\A c \in AmountColumns \cap DOMAIN mp_rows[i] : NonNumeric(mp_rows[i][c]))
                    => mp_transactions[i].amount = 0
              /\ (DateUnknown(mp_transactions[i].transaction_date)
                  \/ DateUnknown(mp_transactions[i].report_date))
                    => mp_transactions[i].onTime = "null"

\* a whole file of at least two rows has been mapped, one of its rows with a
\* non-numeric amount and an unparseable transaction date
C10_Witness ==
    /\ mp_file.schedule_type \in transactional_schedules
    /\ mp_pos = Len(mp_rows) /\ mp_pos >= 2
    /\ Len(mp_transactions) = Len(mp_rows)
    /\ \E i \in 1..mp_pos :
          /\ \E c \in AmountColumns \cap DOMAIN mp_rows[i] : "x" \in Range(mp_rows[i][c])
          /\ mp_transactions[i].transaction_date = RawGarbage
          /\ mp_transactions[i].amount = 0
          /\ mp_transactions[i].onTime = "null"

-----------------------------------------------------------------------------
(* A run of the processor over its source files (main, process_data)        *)

\* A source file is its folder, its name, whether reading it succeeds
\* (download, quote fixing and pd.read_csv raise nothing) and, by the row
\* mappers, one transaction per row; every file of the model has one row.
SourceFile(folder_name, filename, readable) ==
    [folder_name |-> folder_name, filename |-> filename, readable |-> readable]

\* extract_schedule_type on the file names of the model
ExtractScheduleType(filename) ==
    IF filename = "ScheduleA.csv" THEN "ScheduleA"
    ELSE IF filename = "ScheduleD_PAC.csv" THEN "ScheduleD"
    ELSE IF filename = "ScheduleG.csv" THEN "ScheduleG"
    ELSE "Report"

\* is_old_folder: YYYY with a year up to 2011
IsOldFolder(folder_name) == folder_name \in {"2010", "2011"}

\* VirginiaDataProcessor.__init__: the error it raises, if any
ConstructorError(config) ==
    IF config.test_mode THEN "none"
    ELSE IF ~config.gcs_available THEN "ImportError"
    ELSE IF ~config.project_id THEN "ValueError"
    ELSE "none"

\* the transaction a file contributes to all_data
TransactionOf(file) == [folder_name |-> file.folder_name, filename |-> file.filename]

\* the file is read at all: Report.csv, or a schedule that is neither in
\* skip_schedules nor unknown
IsRead(file, format) ==
    \/ format = "new" /\ file.filename = "Report.csv"
    \/ ExtractScheduleType(file.filename) \in transactional_schedules

IsTransactional(file) == ExtractScheduleType(file.filename) \in transactional_schedules

\* main: create the processor; ImportError and ValueError end the run with 1
FL_Construct ==
    /\ fl_status = "start"
    /\ fl_status' = IF ConstructorError(fl_config) = "none" THEN "running" ELSE "config_error"
    /\ UNCHANGED <<fl_config, fl_files, fl_pos, fl_all_data, fl_skipped>>
    /\ UNCHANGED <<otVars, mpVars, amVars, ddVars, nmVars, rsVars, ofVars>>

\* _process_new_folder (test mode): the next file of the folder; pd.read_csv
\* is not inside any try, so its exception leaves _process_test_mode and
\* process_data and is caught by main ("Processing failed", return 1)
FL_ProcessNewFileLocal ==
    /\ fl_status = "running" /\ fl_config.test_mode
    /\ fl_pos < Len(fl_files)
    /\ LET file == fl_files[fl_pos + 1]
       IN  IF IsRead(file, "new") /\ ~file.readable
           THEN /\ fl_status' = "failed"
                /\ fl_all_data' = <<>>
                /\ UNCHANGED <<fl_pos, fl_skipped>>
           ELSE /\ fl_all_data' = IF IsTransactional(file)
                                  THEN Append(fl_all_data, TransactionOf(file))
                                  ELSE fl_all_data
                /\ fl_pos' = fl_pos + 1
                /\ UNCHANGED <<fl_status, fl_skipped>>
    /\ UNCHANGED <<fl_config, fl_files>>
    /\ UNCHANGED <<otVars, mpVars, amVars, ddVars, nmVars, rsVars, ofVars>>

\* _process_old_folder_gcs: the next blob of an old folder; UnicodeDecodeError
\* and every other Exception are logged and the file is skipped
FL_ProcessOldFileGcs ==
    /\ fl_status = "running" /\ ~fl_config.test_mode
    /\ fl_pos < Len(fl_files)
    /\ IsOldFolder(fl_files[fl_pos + 1].folder_name)
    /\ LET file == fl_files[fl_pos + 1]
       IN  IF IsRead(file, "old") /\ ~file.readable
           THEN /\ fl_skipped' = Append(fl_skipped, file)
                /\ UNCHANGED fl_all_data
           ELSE /\ fl_all_data' = IF IsTransactional(file)
                                  THEN Append(fl_all_data, TransactionOf(file))
                                  ELSE fl_all_data
                /\ UNCHANGED fl_skipped
    /\ fl_pos' = fl_pos + 1
    /\ UNCHANGED <<fl_config, fl_files, fl_status>>
    /\ UNCHANGED <<otVars, mpVars, amVars, ddVars, nmVars, rsVars, ofVars>>

\* _process_new_folder_gcs: Report.csv or the next schedule blob of a new
\* folder, each inside its own try
FL_ProcessNewFileGcs ==
    /\ fl_status = "running" /\ ~fl_config.test_mode
    /\ fl_pos < Len(fl_files)
    /\ ~IsOldFolder(fl_files[fl_pos + 1].folder_name)
    /\ LET file == fl_files[fl_pos + 1]
       IN  IF IsRead(file, "new") /\ ~file.readable
           THEN /\ fl_skipped' = Append(fl_skipped, file)
                /\ UNCHANGED fl_all_data
           ELSE /\ fl_all_data' = IF IsTransactional(file)
                                  THEN Append(fl_all_data, TransactionOf(file))
                                  ELSE fl_all_data
                /\ UNCHANGED fl_skipped
    /\ fl_pos' = fl_pos + 1
    /\ UNCHANGED <<fl_config, fl_files, fl_status>>
    /\ UNCHANGED <<otVars, mpVars, amVars, ddVars, nmVars, rsVars, ofVars>>

\* process_data returns the DataFrame of all_data
FL_Return ==
    /\ fl_status = "running" /\ fl_pos = Len(fl_files)
    /\ fl_status' = "done"
    /\ UNCHANGED <<fl_config, fl_files, fl_pos, fl_all_data, fl_skipped>>
    /\ UNCHANGED <<otVars, mpVars, amVars, ddVars, nmVars, rsVars, ofVars>>

MaxFiles == 3

Config(test_mode, project_id, gcs_available) ==
    [test_mode |-> test_mode, project_id |-> project_id, gcs_available |-> gcs_available]

RunFilenames == {"Report.csv", "ScheduleA.csv", "ScheduleD_PAC.csv", "ScheduleG.csv"}

\* the files of the run in processing order: distinct files, old folders
\* before new ones; test mode reads the 2024_MM folders only
FileLists(folders) ==
    {fs \in SeqsUpTo({SourceFile(f, n, r) : f \in folders, n \in RunFilenames, r \in BOOLEAN},
                     MaxFiles) :
        \A i, j \in DOMAIN fs :
            i < j => /\ <<fs[i].folder_name, fs[i].filename>> # <<fs[j].folder_name, fs[j].filename>>
                     /\ ~(IsOldFolder(fs[j].folder_name) /\ ~IsOldFolder(fs[i].folder_name))}

RunInputs ==
    {[config |-> Config(TRUE, FALSE, FALSE), files |-> fs] : fs \in FileLists({"2024_01"})}
    \cup {[config |-> Config(FALSE, TRUE, TRUE), files |-> fs] :
             fs \in FileLists({"2010", "2024_01"})}
    \cup {[config |-> c, files |-> <<SourceFile("2024_01", "ScheduleA.csv", TRUE)>>] :
             c \in {Config(FALSE, FALSE, TRUE), Config(FALSE, TRUE, FALSE)}}

InitRun ==
    /\ \E input \in RunInputs : fl_config = input.config /\ fl_files = input.files
    /\ fl_pos = 0 /\ fl_all_data = <<>> /\ fl_skipped = <<>> /\ fl_status = "start"
    /\ ot_tx = RawNone /\ ot_rep = RawNone /\ ot_cycle = CycleNone /\ ot_year = YearNone
    /\ ot_status = "idle" /\ ot_column = "idle"
    /\ mp_file = "idle"
    /\ mp_rows = <<>> /\ mp_reports = {} /\ mp_pos = 0 /\ mp_transactions = <<>>
    /\ logged_missing_reports = {} /\ mp_warnings = <<>>
    /\ of_office_sought = "idle" /\ of_district = "idle" /\ of_candidate_city = "idle"
    /\ of_office_normal = "idle" /\ of_level = "idle" /\ of_district_normal = "idle"
    /\ of_pc = "idle"
    /\ am_df = <<>> /\ am_threshold = 0 /\ am_latest = {} /\ am_out = {} /\ am_pc = "idle"
    /\ dd_records = <<>> /\ final_records = <<>> /\ exact_duplicates_found = <<>>
    /\ near_duplicates_found = <<>> /\ dd_pc = "idle"
    /\ nm_name = <<>> /\ nm_mode = "none" /\ nm_once = <<>> /\ nm_twice = <<>> /\ nm_pc = "idle"
    /\ rs_cm_table = <<>> /\ rs_nv_table = <<>> /\ name_variations = <<>>
    /\ committee_mappings = <<>> /\ normalized_to_committee = <<>>
    /\ schedule_a_df = <<>> /\ schedule_d_df = <<>> /\ batch_size = 0 /\ batch_idx = 0
    /\ unmatched_contributions = <<>> /\ rs_trace = <<>> /\ rs_pc = "idle"

NextRun ==
    FL_Construct \/ FL_ProcessNewFileLocal \/ FL_ProcessOldFileGcs \/ FL_ProcessNewFileGcs
    \/ FL_Return

SpecRun == InitRun /\ [][NextRun]_vars

-----------------------------------------------------------------------------
(* Properties of a run                                                      *)

\* the transactions of the files that can be read, in processing order
ReadableTransactions(files) ==
    LET Kept(file) == IsTransactional(file) /\ file.readable
        kept == SelectSeq(files, Kept)
    IN  [i \in DOMAIN kept |-> TransactionOf(kept[i])]

\* C11: file-level failures are never fatal, in test mode and in production
\* mode: a run ends early only with a configuration error raised by the
\* constructor, never because a source file could not be read, and a run that
\* returns has the transactions of every readable transactional file
C11_FileFailuresNotFatal ==
    /\ fl_status # "failed"
    /\ fl_status = "config_error" => ConstructorError(fl_config) # "none"
    /\ fl_status = "done" => fl_all_data = ReadableTransactions(fl_files)

\* the NameVariation route produces a committee for the cleaned name
VariationRoute(recipient_clean) ==
    /\ recipient_clean \in DOMAIN name_variations
    /\ StrLower(name_variations[recipient_clean]) \in DOMAIN normalized_to_committee

\* C12: resolver fallback order: for a non-empty counter-party name, whenever
\* the NameVariation route fails (the lower-cased name is no NameVariation key,
\* or its canonical name is no key of the reverse committee index) and the
\* lower-cased name itself is a key of the reverse committee index, that
\* committee is what the lookup finds; the result is null only when both
\* routes fail
C12_ResolverFallbackOrder ==
    \A i \in DOMAIN rs_trace :
        LET recipient_name == RecipientNameOf(schedule_d_df[i])
            recipient_clean == StrStrip(StrLower(recipient_name))
        IN  ~Blank(recipient_name) =>
               /\ (~VariationRoute(recipient_clean)
                   /\ recipient_clean \in DOMAIN normalized_to_committee)
                     => /\ rs_trace[i].lookup = normalized_to_committee[recipient_clean]
                        /\ rs_trace[i].matched_committee # NoCommittee
               /\ rs_trace[i].matched_committee = NoCommittee
                     => /\ ~VariationRoute(recipient_clean)
                        /\ recipient_clean \notin DOMAIN normalized_to_committee

\* the pair test of the matcher: both donor names present and equal ignoring
\* case, amounts within one cent, and dates in the window or not comparable
PairMatches(d_row, a_row) ==
    /\ ~Blank(d_row.donor_committee_name) /\ ~Blank(a_row.donor_name)
    /\ NamesEqual(d_row, a_row)
    /\ Abs(a_row.amount - d_row.amount) <= 1
    /\ (WindowConfirmed(d_row, a_row) \/ DateUnconfirmed(d_row, a_row))

\* the committee codes of the candidate of a committee, when it has a real
\* candidate (a name that is neither blank nor 'NOT A CC')
SiblingCodes(committee) ==
    IF Blank(committee.candidate_name_normalized)
       \/ committee.candidate_name_normalized = NOT_A_CC
    THEN {}
    ELSE {committee_mappings[n].committee_code : n \in
            {m \in DOMAIN committee_mappings :
                /\ committee_mappings[m].candidate_name_normalized
                      = committee.candidate_name_normalized
                /\ committee_mappings[m].committee_code # committee.committee_code}}

\* C13: sibling retry before 'unmatched': a resolved disbursement is in the
\* unmatched list only if no receipt of the resolved committee code matches it
\* and, when the resolved committee has a real candidate, no receipt of any
\* other committee code of that candidate matches it either, whatever the
\* outcome for the other sibling codes
C13_SiblingRetry ==
    \A n \in DOMAIN unmatched_contributions :
        LET i == unmatched_contributions[n].index
            committee == rs_trace[i].matched_committee
        IN  /\ committee # NoCommittee
            /\ \A k \in DOMAIN schedule_a_df :
                  schedule_a_df[k].recipient_committee_code
                     \in {committee.committee_code} \cup SiblingCodes(committee)
                  => ~PairMatches(schedule_d_df[i], schedule_a_df[k])

\* the run has returned a disbursement whose candidate has two sibling codes;
\* its own committee code and a sibling code both have receipts, none of which
\* matches
C13_Witness ==
    \E n \in DOMAIN unmatched_contributions :
        LET i == unmatched_contributions[n].index
            committee == rs_trace[i].matched_committee
        IN  /\ \E k \in DOMAIN schedule_a_df :
                  schedule_a_df[k].recipient_committee_code = committee.committee_code
            /\ \E k \in DOMAIN schedule_a_df :
                  schedule_a_df[k].recipient_committee_code \in SiblingCodes(committee)
            /\ Cardinality(SiblingCodes(committee)) = 2
            /\ rs_pc = "done"


(***************************************************************************)
(* Office and district normalisation                                       *)
(* src/functions/name_normalization.py, lines 233-376                      *)
(***************************************************************************)

\* a str literal as the sequence of its characters
Chars(s) == [i \in 1..Len(s) |-> SubSeq(s, i, i)]

LowerLetters == Chars("abcdefghijklmnopqrstuvwxyz")
UpperLetters == Chars("ABCDEFGHIJKLMNOPQRSTUVWXYZ")

InSeq(c, s) == \E i \in DOMAIN s : s[i] = c
IndexIn(c, s) == CHOOSE i \in DOMAIN s : s[i] = c

IsLetter(c) == InSeq(c, LowerLetters) \/ InSeq(c, UpperLetters)
IsDigit(c) == c \in Digits
\* the class \w of the re module
IsWordChar(c) == IsLetter(c) \/ IsDigit(c) \/ c = "_"

ToLower(c) == IF InSeq(c, UpperLetters) THEN LowerLetters[IndexIn(c, UpperLetters)] ELSE c
ToUpper(c) == IF InSeq(c, LowerLetters) THEN UpperLetters[IndexIn(c, LowerLetters)] ELSE c

\* str.lower() over the whole alphabet
Lower(s) == [i \in DOMAIN s |-> ToLower(s[i])]

\* str.title(): a letter is upper-cased after an uncased character (or at the
\* start) and lower-cased after a letter
Title(s) ==
    [i \in DOMAIN s |->
        IF i > 1 /\ IsLetter(s[i - 1]) THEN ToLower(s[i]) ELSE ToUpper(s[i])]

\* the test `term in text`
Contains(text, term) ==
    \E i \in 1..(Len(text) - Len(term) + 1) : SubSeq(text, i, i + Len(term) - 1) = term

\* position of the first '-' of s, 0 when there is none
FirstDash(s) ==
    IF InSeq("-", s) THEN CHOOSE i \in DOMAIN s : s[i] = "-" /\ \A j \in 1..(i - 1) : s[j] # "-"
    ELSE 0

\* re.sub(r'\s*-\s*.*$', '', office): the leftmost match starts at the white
\* space before the first '-' and runs to the end of the text
CutAtDash(s) == IF FirstDash(s) = 0 THEN s ELSE RStrip(SubSeq(s, 1, FirstDash(s) - 1))

boilerplate_phrases ==
    <<Chars("prince william county"), Chars("blue ridge district"),
      Chars("arlington county"), Chars("at large")>>

\* does phrase p match at position i of s between two \b word boundaries
PhraseAt(s, i, p) ==
    /\ i + Len(p) - 1 <= Len(s)
    /\ SubSeq(s, i, i + Len(p) - 1) = p
    /\ (i = 1 \/ ~IsWordChar(s[i - 1]))
    /\ (i + Len(p) - 1 = Len(s) \/ ~IsWordChar(s[i + Len(p)]))

\* re.sub(r'\b(prince william county|blue ridge district|arlington county|at large)\b', '', s),
\* scanning s from position i
RECURSIVE RemoveBoilerplateFrom(_, _)
RemoveBoilerplateFrom(s, i) ==
    IF i > Len(s) THEN <<>>
    ELSE LET hits == {k \in DOMAIN boilerplate_phrases : PhraseAt(s, i, boilerplate_phrases[k])}
         IN IF hits # {}
            THEN LET k == CHOOSE k \in hits : \A h \in hits : k <= h
                 IN RemoveBoilerplateFrom(s, i + Len(boilerplate_phrases[k]))
            ELSE <<s[i]>> \o RemoveBoilerplateFrom(s, i + 1)

\* lines 238-246: the text the rules of normalize_office_sought look at
OfficeClean(office_sought) ==
    Squeeze(StrStrip(RemoveBoilerplateFrom(CutAtDash(StrStrip(Lower(office_sought))), 1)))

\* lines 247-288: the elif chain over the cleaned text
ClassifyOffice(office_clean) ==
    LET Is(x) == office_clean = Chars(x)
        Has(x) == Contains(office_clean, Chars(x))
    IN IF Is("hod") \/ Is("h.o.d.") THEN Chars("delegate")
       ELSE IF Is("ag") \/ Is("a.g.") THEN Chars("attorney general")
       ELSE IF Is("gov") \/ Is("governor") THEN Chars("governor")
       ELSE IF Has("lt gov") \/ Has("lt. gov") \/ Has("lieutenant gov")
               \/ Has("lieut gov") \/ Has("lieu gov")
            THEN Chars("lieutenant governor")
       ELSE IF Has("delegate") \/ Has("hod") THEN Chars("delegate")
       ELSE IF Has("senator") \/ Has("senate") THEN Chars("senator")
       ELSE IF Has("governor") /\ ~Has("lieutenant") /\ ~Has("lt") THEN Chars("governor")
       ELSE IF (Has("lieutenant") \/ Has("lt")) /\ Has("governor")
            THEN Chars("lieutenant governor")
       ELSE IF (Has("attorney") /\ Has("general")) \/ Is("ag") \/ Is("a.g.")
            THEN Chars("attorney general")
       ELSE IF Has("treasurer") THEN Chars("treasurer")
       ELSE IF Has("secretary") /\ Has("commonwealth")
            THEN Chars("secretary of the commonwealth")
       ELSE IF (Has("member") /\ Has("county board"))
               \/ ((Has("supervisor") \/ Has("county board"))
                   /\ (Has("chair") \/ Has("chairman")))
            THEN Chars("chair board of supervisors")
       ELSE IF (Has("member") /\ Has("board")) \/ Has("supervisor") \/ Has("county board")
            THEN Chars("member board of supervisors")
       ELSE IF Has("school") /\ Has("board") /\ (Has("chair") \/ Has("chairman"))
            THEN Chars("chair school board")
       ELSE IF Has("school") /\ Has("board") THEN Chars("school board")
       ELSE IF Has("city council") \/ Has("town council") THEN Chars("city council")
       ELSE IF Has("mayor") THEN Chars("mayor")
       ELSE IF Has("sheriff") THEN Chars("sheriff")
       ELSE IF Has("clerk") /\ Has("court") THEN Chars("clerk of court")
       ELSE IF Has("commonwealth") /\ Has("attorney") THEN Chars("commonwealth attorney")
       ELSE office_clean

\* a classifier that looks at the whole text, dash suffix included
normalize_office_sought_KeepDashSuffix(office_sought) ==
    IF office_sought = NoName THEN NoName
    ELSE ClassifyOffice(Squeeze(StrStrip(RemoveBoilerplateFrom(StrStrip(Lower(office_sought)), 1))))

\* normalize_office_sought(office_sought), lines 233-288; pd.isna(None) gives None
normalize_office_sought(office_sought) ==
    IF office_sought = NoName THEN NoName
    ELSE ClassifyOffice(OfficeClean(office_sought))

state_offices ==
    {Chars("delegate"), Chars("senator"), Chars("governor"), Chars("lieutenant governor"),
     Chars("attorney general"), Chars("treasurer"), Chars("secretary of the commonwealth")}

\* truth value of an optional str: None and '' are falsy
StrTruthy(x) == x # NoName /\ x # <<>>

\* determine_government_level(office_sought_normal, district), lines 291-310
determine_government_level(office_sought_normal, district) ==
    LET district_str == IF StrTruthy(district) THEN StrStrip(Lower(district)) ELSE <<>>
    IN IF Contains(district_str, Chars("congressional")) THEN "federal"
       ELSE IF StrTruthy(office_sought_normal) /\ office_sought_normal \in state_offices
            THEN "state"
       ELSE "local"

at_large_terms ==
    <<Chars("at large"), Chars("at-large"), Chars("atlarge"), Chars(" al "),
      Chars(" al,"), Chars(" al."), Chars("at large")>>

HasAtLargeTerm(text) == \E k \in DOMAIN at_large_terms : Contains(text, at_large_terms[k])

\* lines 319-330: the at_large flag
AtLarge(district, office_sought) ==
    \/ StrTruthy(office_sought) /\ HasAtLargeTerm(Lower(office_sought))
    \/ StrTruthy(district) /\ HasAtLargeTerm(StrStrip(Lower(district)))

\* line 332: ' - ' and the stripped text after the first '-' of the office
Suffix(office_sought) ==
    IF StrTruthy(office_sought) /\ FirstDash(office_sought) # 0
    THEN Chars(" - ")
         \o StrStrip(SubSeq(office_sought, FirstDash(office_sought) + 1, Len(office_sought)))
    ELSE <<>>

\* f"{candidate_city.strip()} ({n})"
CityKey(candidate_city, n) == StrStrip(candidate_city) \o Chars(" (") \o n \o Chars(")")

\* re.findall(r'\d+', s)[0], or <<>> when s has no digit
RECURSIVE DigitRun(_)
DigitRun(s) == IF s # <<>> /\ IsDigit(Head(s)) THEN <<Head(s)>> \o DigitRun(Tail(s)) ELSE <<>>

RECURSIVE FirstNumber(_)
FirstNumber(s) ==
    IF s = <<>> THEN <<>>
    ELSE IF IsDigit(Head(s)) THEN DigitRun(s)
    ELSE FirstNumber(Tail(s))

\* str(int(digits)): the leading zeros go
RECURSIVE StrInt(_)
StrInt(digits) ==
    IF Len(digits) > 1 /\ Head(digits) = "0" THEN StrInt(Tail(digits)) ELSE digits

\* lines 346-376: the result when neither the mayor nor the at-large rule applies
DistrictRest(district, candidate_city, level, office_sought) ==
    LET local_city == level = "local" /\ StrTruthy(candidate_city)
        district_str == IF district = NoName THEN <<>> ELSE StrStrip(district)
        numbers == FirstNumber(district_str)
    IN IF district_str = <<>>
       THEN IF local_city THEN Title(CityKey(candidate_city, Chars("0")))
            ELSE IF StrTruthy(candidate_city) THEN Title(StrStrip(candidate_city))
            ELSE NoName
       ELSE IF numbers # <<>>
       THEN IF local_city
            THEN Title(CityKey(candidate_city, StrInt(numbers)) \o Suffix(office_sought))
            ELSE Title(StrInt(numbers))
       ELSE IF local_city
       THEN IF \A i \in DOMAIN district_str :
                  ~IsLetter(district_str[i]) /\ ~IsDigit(district_str[i])
            THEN Title(CityKey(candidate_city, Chars("0")))
            ELSE Title(CityKey(candidate_city, district_str))
       ELSE Title(district_str)

\* lines 334-344: the result of the mayor and at-large rules
DistrictZero(candidate_city, level) ==
    IF level = "local" /\ StrTruthy(candidate_city)
    THEN Title(CityKey(candidate_city, Chars("0")))
    ELSE Chars("0")

\* a normaliser that reads the district number before the at-large marker
normalize_district_NumberFirst(district, candidate_city, level, office_sought) ==
    LET office_sought_normal ==
            IF StrTruthy(office_sought) THEN normalize_office_sought(office_sought) ELSE NoName
        district_str == IF district = NoName THEN <<>> ELSE StrStrip(district)
    IN IF office_sought_normal = Chars("mayor") THEN DistrictZero(candidate_city, level)
       ELSE IF FirstNumber(district_str) # <<>>
            THEN DistrictRest(district, candidate_city, level, office_sought)
       ELSE IF AtLarge(district, office_sought) THEN DistrictZero(candidate_city, level)
       ELSE DistrictRest(district, candidate_city, level, office_sought)

\* normalize_district(district, candidate_city, level, office_sought), lines 313-376
normalize_district(district, candidate_city, level, office_sought) ==
    LET office_sought_normal ==
            IF StrTruthy(office_sought) THEN normalize_office_sought(office_sought) ELSE NoName
    IN IF office_sought_normal = Chars("mayor") THEN DistrictZero(candidate_city, level)
       ELSE IF AtLarge(district, office_sought) THEN DistrictZero(candidate_city, level)
       ELSE DistrictRest(district, candidate_city, level, office_sought)

\* ---- the inputs of the office/district model ----

OfficeTexts ==
    {"Mayor", "mayor - at large", "Vice Mayor", "Mayor - City Council",
     "Member City Council - At Large", "Town Council at large", "City Council - Ward 2",
     "House of Delegates - 42nd District", "HOD", "h.o.d.", "AG", "a.g.", "Gov",
     "Governor", "Lt. Governor", "Lieutenant Governor", "State Senate - 10th",
     "Attorney General", "Treasurer - Senate clerk", "Secretary of the Commonwealth",
     "Member County Board", "Chairman Board of Supervisors", "Supervisor AL - Chair",
     "Arlington County Board", "Prince William County Supervisor",
     "School Board Chair", "School Board - Blue Ridge District", "Member School Board",
     "Sheriff", "Clerk of Circuit Court", "Commonwealth's Attorney",
     "Soil and Water Director - Ward 5", "Commissioner of Revenue", "-", ""}

DistrictTexts ==
    {"", "At-Large", "At Large 3", "42", "042nd", "District 7", "Dumfries",
     "10th Congressional", "--", "Ward al. 2"}

CityTexts == {"", "Richmond", "NEWPORT NEWS", " mclean "}

\* a text cell: None or a str
Cells(texts) == {NoName} \cup {Chars(t) : t \in texts}

levels == {"local", "state", "federal", NULL}

InitOffice ==
    /\ of_office_sought \in Cells(OfficeTexts)
    /\ of_district \in Cells(DistrictTexts)
    /\ of_candidate_city \in Cells(CityTexts)
    /\ of_office_normal = <<>> /\ of_level = "start" /\ of_district_normal = <<>>
    /\ of_pc = "start"
    /\ ot_tx = RawNone /\ ot_rep = RawNone /\ ot_cycle = CycleNone /\ ot_year = YearNone
    /\ ot_status = "idle" /\ ot_column = "idle"
    /\ mp_file = "idle"
    /\ mp_rows = <<>> /\ mp_reports = {} /\ mp_pos = 0 /\ mp_transactions = <<>>
    /\ logged_missing_reports = {} /\ mp_warnings = <<>>
    /\ fl_config = "idle" /\ fl_files = <<>> /\ fl_pos = 0 /\ fl_all_data = <<>>
    /\ fl_skipped = <<>> /\ fl_status = "idle"
    /\ am_df = <<>> /\ am_threshold = 0 /\ am_latest = {} /\ am_out = {} /\ am_pc = "idle"
    /\ dd_records = <<>> /\ final_records = <<>> /\ exact_duplicates_found = <<>>
    /\ near_duplicates_found = <<>> /\ dd_pc = "idle"
    /\ nm_name = <<>> /\ nm_mode = "none" /\ nm_once = <<>> /\ nm_twice = <<>> /\ nm_pc = "idle"
    /\ rs_cm_table = <<>> /\ rs_nv_table = <<>> /\ name_variations = <<>>
    /\ committee_mappings = <<>> /\ normalized_to_committee = <<>>
    /\ schedule_a_df = <<>> /\ schedule_d_df = <<>> /\ batch_size = 0 /\ batch_idx = 0
    /\ unmatched_contributions = <<>> /\ rs_trace = <<>> /\ rs_pc = "idle"

\* map_new_row_to_transaction, ScheduleABCDFI_processor.py lines 803-808
OF_MapNewRow ==
    /\ of_pc = "start"
    /\ of_office_normal' = normalize_office_sought(of_office_sought)
    /\ of_level' = determine_government_level(of_office_normal', of_district)
    /\ of_district_normal' =
           normalize_district(of_district, of_candidate_city, of_level', of_office_sought)
    /\ of_pc' = "mapped"
    /\ UNCHANGED <<of_office_sought, of_district, of_candidate_city>>
    /\ UNCHANGED <<otVars, mpVars, amVars, ddVars, nmVars, rsVars, flVars>>

\* map_old_row_to_transaction, lines 715-717: no city is passed
OF_MapOldRow ==
    /\ of_pc = "start"
    /\ of_candidate_city' = NoName
    /\ of_office_normal' = normalize_office_sought(of_office_sought)
    /\ of_level' = determine_government_level(of_office_normal', of_district)
    /\ of_district_normal' = normalize_district(of_district, NoName, of_level', of_office_sought)
    /\ of_pc' = "mapped"
    /\ UNCHANGED <<of_office_sought, of_district>>
    /\ UNCHANGED <<otVars, mpVars, amVars, ddVars, nmVars, rsVars, flVars>>

\* a direct call normalize_district(district, candidate_city, level, office_sought)
OF_NormalizeDistrict ==
    /\ of_pc = "start"
    /\ \E level \in levels :
          /\ of_level' = level
          /\ of_district_normal' =
                 normalize_district(of_district, of_candidate_city, level, of_office_sought)
    /\ of_office_normal' =
           IF StrTruthy(of_office_sought) THEN normalize_office_sought(of_office_sought)
           ELSE NoName
    /\ of_pc' = "called"
    /\ UNCHANGED <<of_office_sought, of_district, of_candidate_city>>
    /\ UNCHANGED <<otVars, mpVars, amVars, ddVars, nmVars, rsVars, flVars>>

NextOffice == OF_MapNewRow \/ OF_MapOldRow \/ OF_NormalizeDistrict

SpecOffice == InitOffice /\ [][NextOffice]_vars

\* the rules of lines 247-288 as an ordered list of (hit, result) pairs over a text
OfficeRules(t) ==
    LET Is(x) == t = Chars(x)
        Has(x) == Contains(t, Chars(x))
        Rule(hit, result) == [hit |-> hit, result |-> Chars(result)]
    IN << Rule(Is("hod") \/ Is("h.o.d."), "delegate"),
          Rule(Is("ag") \/ Is("a.g."), "attorney general"),
          Rule(Is("gov") \/ Is("governor"), "governor"),
          Rule(Has("lt gov") \/ Has("lt. gov") \/ Has("lieutenant gov")
               \/ Has("lieut gov") \/ Has("lieu gov"), "lieutenant governor"),
          Rule(Has("delegate") \/ Has("hod"), "delegate"),
          Rule(Has("senator") \/ Has("senate"), "senator"),
          Rule(Has("governor") /\ ~Has("lieutenant") /\ ~Has("lt"), "governor"),
          Rule((Has("lieutenant") \/ Has("lt")) /\ Has("governor"), "lieutenant governor"),
          Rule(Has("attorney") /\ Has("general"), "attorney general"),
          Rule(Has("treasurer"), "treasurer"),
          Rule(Has("secretary") /\ Has("commonwealth"), "secretary of the commonwealth"),
          Rule((Has("member") /\ Has("county board"))
               \/ ((Has("supervisor") \/ Has("county board")) /\ Has("chair")),
               "chair board of supervisors"),
          Rule((Has("member") /\ Has("board")) \/ Has("supervisor") \/ Has("county board"),
               "member board of supervisors"),
          Rule(Has("school") /\ Has("board") /\ Has("chair"), "chair school board"),
          Rule(Has("school") /\ Has("board"), "school board"),
          Rule(Has("city council") \/ Has("town council"), "city council"),
          Rule(Has("mayor"), "mayor"),
          Rule(Has("sheriff"), "sheriff"),
          Rule(Has("clerk") /\ Has("court"), "clerk of court"),
          Rule(Has("commonwealth") /\ Has("attorney"), "commonwealth attorney") >>

\* the rules that match a text, by position in the list
OfficeHits(t) == LET rules == OfficeRules(t) IN {k \in DOMAIN rules : rules[k].hit}

\* the lower-cased text before the first '-', without the boilerplate phrases
BeforeFirstDash(office_sought) ==
    LET cut == IF FirstDash(office_sought) = 0 THEN office_sought
               ELSE SubSeq(office_sought, 1, FirstDash(office_sought) - 1)
    IN Squeeze(StrStrip(RemoveBoilerplateFrom(StrStrip(Lower(cut)), 1)))

\* C15: normalize_office_sought looks only at the text before the first '-'
\* with the boilerplate phrases removed; the result is the category of the
\* first rule of the ordered list that matches that text (the exact
\* abbreviations hod, ag, gov come first), the text itself (lower-cased and
\* trimmed) when no rule matches, and null for a null input;
\* "House of Delegates - 42nd District" gives "delegate".
C15_OfficeFirstMatchWins ==
    of_pc = "mapped" =>
        /\ of_office_sought = NoName => of_office_normal = NoName
        /\ of_office_sought # NoName =>
              LET t == BeforeFirstDash(of_office_sought)
                  rules == OfficeRules(t)
                  hits == OfficeHits(t)
              IN /\ hits = {} => of_office_normal = t
                 /\ hits # {} =>
                       \E k \in hits : /\ \A h \in hits : k <= h
                                       /\ of_office_normal = rules[k].result
        /\ of_office_sought = Chars("House of Delegates - 42nd District")
              => of_office_normal = Chars("delegate")

\* an office with a dash suffix whose text before the dash matches a rule,
\* while the whole text matches an earlier rule as well
C15_Witness ==
    /\ of_pc = "mapped"
    /\ of_office_sought # NoName
    /\ FirstDash(of_office_sought) # 0
    /\ OfficeHits(BeforeFirstDash(of_office_sought)) # {}
    /\ \E k \in OfficeHits(Squeeze(StrStrip(Lower(of_office_sought)))) :
          \A h \in OfficeHits(BeforeFirstDash(of_office_sought)) : k < h
    /\ of_office_normal # NoName

\* C14: when the office normalizes to mayor, or an at-large marker occurs in
\* the district or in the office text, normalize_district returns "0", and for
\* level local with a city it returns "<City> (0)" title-cased; a number in the
\* district is ignored. District "At-Large", city "Richmond", level local,
\* office "Mayor" gives "Richmond (0)".
C14_AtLargeMayorCollapse ==
    of_pc # "start" =>
        /\ (\/ of_office_normal = Chars("mayor")
            \/ (of_office_sought # NoName /\ HasAtLargeTerm(Lower(of_office_sought)))
            \/ (of_district # NoName /\ HasAtLargeTerm(StrStrip(Lower(of_district)))))
           => of_district_normal =
                  IF of_level = "local" /\ of_candidate_city \notin {NoName, <<>>}
                  THEN Title(StrStrip(of_candidate_city) \o Chars(" (0)"))
                  ELSE Chars("0")
        /\ (/\ of_district = Chars("At-Large") /\ of_candidate_city = Chars("Richmond")
            /\ of_level = "local" /\ of_office_sought = Chars("Mayor"))
           => of_district_normal = Chars("Richmond (0)")

\* an at-large district that carries a number, for a local race with a city
C14_Witness ==
    /\ of_pc # "start"
    /\ of_district = Chars("At Large 3")
    /\ of_level = "local"
    /\ of_candidate_city = Chars("NEWPORT NEWS")
    /\ of_office_normal = Chars("city council")
    /\ of_district_normal = Chars("Newport News (0)")

-----------------------------------------------------------------------------
(* Cluster rule of the amendment consolidator                               *)

\* two rows of one group with similar names whose dates both parse and lie
\* within 30 days of each other
SameCluster(df, i, j, threshold) ==
    /\ GroupKey(df[i]) = GroupKey(df[j])
    /\ FuzzyNameMatch(CleanRow(df[i]).entity_name_normalized,
                      CleanRow(df[j]).entity_name_normalized, threshold)
    /\ DatesWithinMonth(ParsedDate(df[i]), ParsedDate(df[j]))

\* the rows reachable from the rows of S through a chain of linked pairs
RECURSIVE ClusterFrom(_, _, _)
ClusterFrom(df, S, threshold) ==
    LET more == S \cup {j \in DOMAIN df : \E i \in S : SameCluster(df, i, j, threshold)}
    IN IF more = S THEN S ELSE ClusterFrom(df, more, threshold)

ClusterOf(df, i, threshold) == ClusterFrom(df, {i}, threshold)

\* C16: inside a grouping-key group two records share a cluster only when
\* their names are similar and both dates parse and lie within 30 days of each
\* other (directly or through a chain); each cluster keeps exactly its members
\* with the maximum amendment_count, so a record is removed only when a record
\* of its own cluster has a strictly higher amendment_count
C16_ClusterRule ==
    am_pc = "done" =>
        \A i \in DOMAIN am_df :
            i \in am_latest <=>
                AmendOf(am_df, i) = MaxAmend(am_df, ClusterOf(am_df, i, am_threshold))

-----------------------------------------------------------------------------
(* Window selection and calendar well-formedness                            *)

\* the election year read from election_cycle: the integer after the last
\* '/', or the whole value when there is no '/'
ElectionYearReadable(cycle) == cycle.kind \in {"slash", "plain", "int"} /\ cycle.ok

\* the call got past the input checks: both dates and the year were read
OtInputsRead ==
    /\ Truthy(ot_tx) /\ Truthy(ot_rep) /\ YearTruthy(ot_year)
    /\ ToDate(ot_tx) # NoDate /\ ToDate(ot_rep) # NoDate /\ YearParses(ot_year)

\* [start, end] of a window contains the date
WindowContains(period, date) ==
    /\ DateLE(ToDate(period.filingPeriodStart), date)
    /\ DateLE(date, ToDate(period.filingPeriodEnd))

\* the windows of the report year that contain tx_date and have the flag
WindowsFor(flag) ==
    LET periods == GetFilingPeriodsForYear(ot_year.val)
    IN {i \in DOMAIN periods : /\ WindowContains(periods[i], ToDate(ot_tx))
                               /\ periods[i].onCycle = flag}

\* C17: is_on_cycle is true exactly when an election year can be read from
\* election_cycle and equals report_year; the result is decided by the first
\* window, in list order, that contains transaction_date and whose onCycle
\* flag equals is_on_cycle; other windows never influence the result
C17_WindowSelection ==
    (ot_status # "pending" /\ OtInputsRead) =>
        LET periods == GetFilingPeriodsForYear(ot_year.val)
            is_on_cycle == ElectionYearReadable(ot_cycle) /\ ot_cycle.val = ot_year.val
            matching == WindowsFor(is_on_cycle)
        IN IF matching = {} THEN ot_status = "false"
           ELSE \E i \in matching :
                   /\ \A j \in matching : i <= j
                   /\ ot_status = IF DateLE(ToDate(ot_rep), ToDate(periods[i].filingPeriodDeadline))
                                  THEN "true" ELSE "false"

\* an on-cycle transaction inside two on-cycle windows and an earlier
\* off-cycle window, reported after the deadline of the later on-cycle window
C17_Witness ==
    /\ ot_status = "true" /\ OtInputsRead
    /\ ElectionYearReadable(ot_cycle) /\ ot_cycle.val = ot_year.val
    /\ LET periods == GetFilingPeriodsForYear(ot_year.val)
       IN \E i, j \in WindowsFor(TRUE) :
             /\ i < j
             /\ ~DateLE(ToDate(ot_rep), ToDate(periods[j].filingPeriodDeadline))
             /\ \E k \in WindowsFor(FALSE) : k < i

\* C18: for every report year the windows with the same onCycle flag are
\* pairwise non-overlapping and contiguous, so each transaction date lies in
\* at most one window of a given cycle type and every listed window is the
\* one selected for the dates it covers
C18_CalendarWellFormed ==
    (ot_status # "pending" /\ OtInputsRead) =>
        LET periods == GetFilingPeriodsForYear(ot_year.val)
            SameFlag(i, j) == periods[i].onCycle = periods[j].onCycle
            Start(i) == Ordinal(ToDate(periods[i].filingPeriodStart))
            End(i) == Ordinal(ToDate(periods[i].filingPeriodEnd))
            is_on_cycle == IsOnCycle(ot_year.val, ElectionYear(ot_cycle))
        IN /\ \A i, j \in DOMAIN periods :
                 (i # j /\ SameFlag(i, j)) => (End(i) < Start(j) \/ End(j) < Start(i))
           /\ \A i \in DOMAIN periods :
                 (\E j \in DOMAIN periods : SameFlag(i, j) /\ Start(j) < Start(i))
                    => \E j \in DOMAIN periods : SameFlag(i, j) /\ End(j) + 1 = Start(i)
           /\ \A flag \in BOOLEAN : Cardinality(WindowsFor(flag)) <= 1
           /\ \A i \in WindowsFor(is_on_cycle) :
                 ot_status = IF DateLE(ToDate(ot_rep), ToDate(periods[i].filingPeriodDeadline))
                             THEN "true" ELSE "false"

-----------------------------------------------------------------------------
(* Greedy clustering and flexible fields of the suppressor                  *)

\* the fields count_field_differences compares in step 3 differ in at most two
NearDuplicates(r1, r2) == CountFieldDifferences(r1, r2, ExtendedFlexibleFields) <= 2

PipelineFlexibleFields == {"report_id", "report_date", "onTime", "folder_name"}

\* the fields the bucket key is built from
BucketKeyFields ==
    {"amount", "transaction_date", "candidate_name", "entity_name", "recipient_name",
     "donor_name", "payee_name", "vendor_name"}

\* C20: a difference between two same-bucket records in report_id,
\* report_date, onTime or folder_name, or in a bucket key field, never counts
\* toward the total that is compared with 2: a record with at most two other
\* differences from an earlier kept record of its bucket is dropped
C20_FlexibleFieldsExcluded ==
    dd_pc = "done" =>
        \A i, j \in DOMAIN dd_records :
            (/\ i < j
             /\ i \in Range(final_records)
             /\ DedupGroupKey(dd_records[i]) = DedupGroupKey(dd_records[j])
             /\ CountFieldDifferences(dd_records[i], dd_records[j],
                                      PipelineFlexibleFields \cup BucketKeyFields) <= 2)
            => j \notin Range(final_records)

-----------------------------------------------------------------------------
(* Missing-report warning                                                   *)

\* the missing-report warnings among the warnings a step has added
NewMissingWarnings ==
    SelectSeq(SubSeq(mp_warnings', Len(mp_warnings) + 1, Len(mp_warnings')),
              LAMBDA w : w.kind = "missing_report")

\* the row a step of the new-format row loop maps carries ReportId id, which
\* has no Report.csv entry
MapsRowWithMissingReport(id) ==
    /\ mp_file.format = "new" /\ mp_file.schedule_type \in transactional_schedules
    /\ mp_pos' = mp_pos + 1
    /\ RowGet(mp_rows[mp_pos + 1], "ReportId", IdBlank) = id
    /\ ~id.blank
    /\ ~ReportInfo(mp_reports, id).found

\* no earlier row of the sequence carries ReportId id
FirstRowWith(id) == \A k \in 1..mp_pos : RowGet(mp_rows[k], "ReportId", IdBlank) # id

\* what C21 asks of a step that maps a row with the missing ReportId id
WarnedOncePerKey(id) ==
    /\ NewMissingWarnings =
          IF FirstRowWith(id) THEN <<Warning("missing_report", "ReportId", id)>> ELSE <<>>
    /\ logged_missing_reports \subseteq logged_missing_reports'
    /\ Len(mp_transactions') = Len(mp_transactions) + 1

-----------------------------------------------------------------------------
(* Batch independence of the resolver pass                                  *)

\* C22: with test mode off, the record produced for a disbursement (whether
\* it is reported unmatched, its failure reason and its diagnostic fields such
\* as the available committee codes) is the same for every batch size and does
\* not depend on which other disbursements share its batch
C22_BatchIndependence ==
    rs_pc = "done" =>
        /\ {unmatched_contributions[n].index : n \in DOMAIN unmatched_contributions}
              = {i \in DOMAIN schedule_d_df : OutcomeOf(i).reported}
        /\ \A n \in DOMAIN unmatched_contributions :
              \A size \in 1..Len(schedule_d_df) :
                  LET i == unmatched_contributions[n].index
                  IN unmatched_contributions[n] =
                         ContributionRecord(i, schedule_d_df[i], OutcomeOf(i),
                                            AllScheduleA(i, size))

-----------------------------------------------------------------------------
(* Order independence of the amendment consolidator                         *)

\* the orders in which the rows of a table of n rows can be listed
RowOrders(n) == {p \in [1..n -> 1..n] : \A i, j \in 1..n : p[i] = p[j] => i = j}

\* the table with its rows listed in the order p
Permuted(df, p) == [i \in DOMAIN df |-> df[p[i]]]

\* C23: for every input table and every permutation of its rows,
\* get_latest_amendments returns the same set of records
C23_OrderIndependence ==
    (am_pc = "done" /\ am_df # <<>>) =>
        \A p \in RowOrders(Len(am_df)) :
            GetLatestAmendments(Permuted(am_df, p), am_threshold) = am_out

-----------------------------------------------------------------------------
(* The resolved committee and the matched identity                          *)

\* C24: the committee returned by find_matching_committee_batch is the one
\* found by exact lookup or a committee of the same real candidate; when the
\* looked-up committee carries the sentinel 'NOT A CC', the looked-up
\* committee itself is returned
C24_StaysWithMatchedIdentity ==
    \A i \in DOMAIN rs_trace :
        LET t == rs_trace[i]
        IN t.lookup # NoCommittee =>
              /\ \/ t.matched_committee = t.lookup
                 \/ /\ t.matched_committee.candidate_name_normalized
                          = t.lookup.candidate_name_normalized
                    /\ t.lookup.candidate_name_normalized # NOT_A_CC
              /\ t.lookup.candidate_name_normalized = NOT_A_CC =>
                    t.matched_committee = t.lookup

-----------------------------------------------------------------------------
(* Coverage of the report year by the filing calendar                       *)

\* C25: for every report year, both cycle types and every transaction date
\* inside the calendar year, the calendar of the year has a window of that
\* cycle type covering the date, so the scan falls through to its default
\* false only for transaction dates outside the report year
C25_CalendarCoverage ==
    (ot_status # "pending" /\ OtInputsRead /\ ToDate(ot_tx).y = ot_year.val) =>
        /\ \A flag \in BOOLEAN : WindowsFor(flag) # {}
        /\ WindowsFor(IsOnCycle(ot_year.val, ElectionYear(ot_cycle))) # {}

-----------------------------------------------------------------------------
(* Every transaction group survives consolidation                           *)

\* record r is input row x with the missing cells of the four cleaned
\* columns filled in and every other column untouched
IsCleanedFormOf(r, x) ==
    /\ DOMAIN r = DOMAIN x
    /\ \A f \in DOMAIN x \ {"committee_code", "entity_name_normalized", "amount",
                            "amendment_count"} : r[f] = x[f]
    /\ r.committee_code = (IF x.committee_code = NULL THEN "UNKNOWN" ELSE x.committee_code)
    /\ r.entity_name_normalized =
          (IF x.entity_name_normalized = NoName THEN UnknownName ELSE x.entity_name_normalized)
    /\ r.amount = (IF x.amount.null THEN Num(0) ELSE x.amount)
    /\ r.amendment_count = (IF x.amendment_count.null THEN Num(0) ELSE x.amendment_count)

\* C26: for every non-empty input of get_latest_amendments each grouping-key
\* group of the input has at least one record in the output, and every output
\* record is a row of the input (with its missing cells filled), none is
\* fabricated
C26_NoGroupEliminated ==
    (am_pc = "done" /\ am_df # <<>>) =>
        /\ \A i \in DOMAIN am_df :
              \E j \in DOMAIN am_df :
                 /\ GroupKey(am_df[j]) = GroupKey(am_df[i])
                 /\ \E r \in am_out : IsCleanedFormOf(r, am_df[j])
                 /\ j \in am_latest
        /\ am_latest \subseteq DOMAIN am_df
        /\ \A r \in am_out : \E i \in DOMAIN am_df : IsCleanedFormOf(r, am_df[i])

\* a group of two rows lost its older amendment and a second group of the
\* same table, whose amendment count is lower, is still present
C26_Witness ==
    /\ am_pc = "done" /\ Len(am_df) = 3
    /\ GroupKey(am_df[1]) = GroupKey(am_df[2])
    /\ GroupKey(am_df[3]) # GroupKey(am_df[1])
    /\ AmendOf(am_df, 1) = 2 /\ AmendOf(am_df, 2) = 0 /\ AmendOf(am_df, 3) = 1
    /\ am_latest = {1, 3}
    /\ Cardinality(am_out) = 2

-----------------------------------------------------------------------------
(* The fuzzy threshold and the consolidation result                         *)

\* name_clean of a row
NameClean(r) == StrUpper(StrStrip(CleanRow(r).entity_name_normalized))

\* the ends of the threshold range 0..100; a name match at a threshold is
\* also a match at every lower one, so rows matched alike at both ends are
\* matched alike everywhere between
ThresholdEnds == {0, 100}

\* the rows of the table whose cleaned name is n, in table order
RowsNamed(df, n) == SelectSeq(df, LAMBDA r : NameClean(r) = n)

\* C27: for every input table whose names are non-empty the result of
\* get_latest_amendments is the same at every fuzzy_threshold, and records
\* whose upper-cased, trimmed names differ are never consolidated with each
\* other: the records kept under a name are those kept when the rows of that
\* name are consolidated alone, and a dropped row has a kept row of the same
\* cleaned name with a higher amendment count
C27_ThresholdIrrelevant ==
    (am_pc = "done" /\ am_df # <<>>
       /\ \A i \in DOMAIN am_df : am_df[i].entity_name_normalized # <<>>) =>
        LET names == [i \in DOMAIN am_df |-> NameClean(am_df[i])]
        IN /\ \A t \in ThresholdEnds \ {am_threshold} :
                 LatestTransactions(am_df, t) = am_latest
           /\ \A n \in Range(names) :
                 (\E i \in DOMAIN am_df : names[i] # n) =>
                    GetLatestAmendments(RowsNamed(am_df, n), am_threshold)
                       = {CleanRow(am_df[i]) : i \in {k \in am_latest : names[k] = n}}
           /\ \A i \in DOMAIN am_df \ am_latest :
                 \E j \in am_latest : /\ names[j] = names[i]
                                      /\ AmendOf(am_df, j) > AmendOf(am_df, i)

\* at threshold 0 an older amendment of "AB" was dropped while the record
\* of "AC", which differs only in the name and has a lower amendment count
\* than the kept "AB" record, was kept
C27_Witness ==
    /\ am_pc = "done" /\ am_threshold = 0 /\ Len(am_df) = 3
    /\ \A i \in DOMAIN am_df : am_df[i].entity_name_normalized # <<>>
    /\ NameClean(am_df[1]) = AB /\ NameClean(am_df[2]) = AB
    /\ NameClean(am_df[3]) = <<"A", "C">>
    /\ GroupKey(am_df[1]) = GroupKey(am_df[2])
    /\ AmendOf(am_df, 1) = 0 /\ AmendOf(am_df, 2) = 2 /\ AmendOf(am_df, 3) = 1
    /\ am_latest = {2, 3}

-----------------------------------------------------------------------------
(* The on-time status and the report date                                   *)

\* the report dates of the model that parse
ParseableReportDates == {x \in RepRaws : Truthy(x) /\ ToDate(x) # NoDate}

\* the status for report date r with the transaction date, election cycle
\* and report year of the state
StatusForReportDate(r) == DetermineOnTimeStatus(ot_tx, r, ot_cycle, ot_year)

\* C28: for a fixed transaction date, election cycle and report year, when
\* the status is true for report date r it is true for every earlier report
\* date that parses, and when it is false for r it is false for every later
\* one
C28_MonotoneInReportDate ==
    (ot_status \in {"true", "false"} /\ OtInputsRead) =>
        \A r \in ParseableReportDates :
            /\ (ot_status = "true" /\ DateLE(ToDate(r), ToDate(ot_rep)))
                  => StatusForReportDate(r) = "true"
            /\ (ot_status = "false" /\ DateLE(ToDate(ot_rep), ToDate(r)))
                  => StatusForReportDate(r) = "false"

\* a report filed on the deadline is on time, one filed the year before the
\* window opens is on time as well, and one filed a day later is late
C28_Witness ==
    /\ ot_status = "true" /\ OtInputsRead
    /\ ot_tx = Iso(2024, 6, 30) /\ ot_rep = Iso(2024, 7, 15)
    /\ ot_year = YearInt(2024) /\ ot_cycle = CycleNone
    /\ StatusForReportDate(Iso(2023, 7, 15)) = "true"
    /\ StatusForReportDate(Iso(2024, 7, 16)) = "false"

-----------------------------------------------------------------------------
(* The output of the suppressor                                             *)

\* the records deduplicate_records returns, in output order
FinalRecords == [n \in DOMAIN final_records |-> dd_records[final_records[n]]]

\* C29: in the output of deduplicate_records any two records of one bucket
\* differ in more than 2 compared fields, no two output records are
\* identical, and deduplicate_records applied to its own output returns the
\* same records in the same order
C29_IdempotentDistinctSurvivors ==
    dd_pc = "done" =>
        LET out == FinalRecords
        IN /\ \A a, b \in DOMAIN out :
                 a # b =>
                    /\ out[a] # out[b]
                    /\ DedupGroupKey(out[a]) = DedupGroupKey(out[b]) =>
                          CountFieldDifferences(out[a], out[b], ExtendedFlexibleFields) > 2
           /\ DeduplicateRecords(out).final_records = Positions(Len(out))
           /\ DeduplicateRecords(out).near_duplicates_found = <<>>

\* the first and third record share a bucket and are both kept, so the
\* output lists them before the second record; a second pass over that
\* output keeps all three in that order
C29_Witness ==
    /\ dd_pc = "done" /\ Len(dd_records) = 3
    /\ final_records = <<1, 3, 2>>
    /\ DedupGroupKey(dd_records[1]) = DedupGroupKey(dd_records[3])
    /\ DedupGroupKey(dd_records[1]) # DedupGroupKey(dd_records[2])
    /\ DeduplicateRecords(FinalRecords).final_records = <<1, 2, 3>>

\* a near duplicate was dropped and the survivors pass unchanged through a
\* second application
C29_WitnessDropped ==
    /\ dd_pc = "done" /\ Len(dd_records) = 3
    /\ final_records = <<1, 3>> /\ near_duplicates_found # <<>>
    /\ DeduplicateRecords(FinalRecords).final_records = <<1, 2>>


-----------------------------------------------------------------------------
(* Chair and member of a board of supervisors                               *)

\* C30: normalize_office_sought returns 'chair board of supervisors' only
\* when the cleaned office text contains 'chair', and an office text with
\* 'member' and 'county board' but without 'chair' is classified
\* 'member board of supervisors'
C30_ChairNeedsChair ==
    (of_pc = "mapped" /\ of_office_sought # NoName) =>
        LET office_clean == OfficeClean(of_office_sought)
            Has(x) == Contains(office_clean, Chars(x))
        IN /\ of_office_normal = Chars("chair board of supervisors") => Has("chair")
           /\ (Has("member") /\ Has("county board") /\ ~Has("chair"))
                 => of_office_normal = Chars("member board of supervisors")
=============================================================================
